---------------------------- MODULE Spec2Model ----------------------------
(***************************************************************************)
(* A model of the paraphraser-api scripts:                                 *)
(*   scripts/paraphrase_model.py   ParaphraseModel (rule-based engine)     *)
(*   scripts/grammar_corrector.py  GrammarCorrector                        *)
(* Texts are TLA+ strings, handled character by character with the         *)
(* Sequences operators; every Python string method the scripts use is      *)
(* defined below by what it computes.  The only whitespace character of    *)
(* the modelled inputs is the space.                                       *)
(***************************************************************************)
EXTENDS Integers, Sequences, FiniteSets, TLC

(***************************************************************************)
(* Python str methods                                                      *)
(***************************************************************************)
UpperChars == "ABCDEFGHIJKLMNOPQRSTUVWXYZ"
LowerChars == "abcdefghijklmnopqrstuvwxyz"
DigitChars == "0123456789"

CharAt(s, i) == SubSeq(s, i, i)
CharsOf(s) == {CharAt(s, i) : i \in 1..Len(s)}

UpperSet == CharsOf(UpperChars)
LowerSet == CharsOf(LowerChars)

LowerMap ==
  [c \in UpperSet |-> CharAt(LowerChars, CHOOSE i \in 1..Len(UpperChars) : CharAt(UpperChars, i) = c)]
UpperMap ==
  [c \in LowerSet |-> CharAt(UpperChars, CHOOSE i \in 1..Len(LowerChars) : CharAt(LowerChars, i) = c)]

LowerChar(c) == IF c \in UpperSet THEN LowerMap[c] ELSE c
UpperChar(c) == IF c \in LowerSet THEN UpperMap[c] ELSE c

\* The least and the greatest member of a non-empty set of integers
MinOf(set) == CHOOSE x \in set : \A y \in set : x <= y
MaxOf(set) == CHOOSE x \in set : \A y \in set : x >= y

\* str.lower(): every character lower-cased (one half of s after the other)
RECURSIVE lower(_)
lower(s) ==
  IF Len(s) <= 1 THEN LowerChar(s)
  ELSE LET h == Len(s) \div 2 IN lower(SubSeq(s, 1, h)) \o lower(SubSeq(s, h + 1, Len(s)))

\* str.capitalize(): first character upper-cased, the rest lower-cased
capitalize(s) == IF s = "" THEN "" ELSE UpperChar(Head(s)) \o lower(Tail(s))

\* c.isupper() for one character
IsUpperChar(c) == c \in UpperSet

\* str.isupper(): at least one cased character and no lower-case one
isupper(s) ==
  /\ \E i \in 1..Len(s) : CharAt(s, i) \in UpperSet
  /\ \A i \in 1..Len(s) : CharAt(s, i) \notin LowerSet

\* s[i:] with a 0-based Python index i >= 0
From(s, i) == SubSeq(s, i + 1, Len(s))
\* s[:i] with a 0-based Python index i >= 0
Upto(s, i) == SubSeq(s, 1, IF i > Len(s) THEN Len(s) ELSE i)

startswith(s, p) == Len(s) >= Len(p) /\ SubSeq(s, 1, Len(p)) = p
endswith(s, p) == Len(s) >= Len(p) /\ SubSeq(s, Len(s) - Len(p) + 1, Len(s)) = p

\* str.find(sub) as a 0-based index, -1 when absent
FindFrom(s, sub, i) ==
  LET found == {j \in i..(Len(s) - Len(sub)) : SubSeq(s, j + 1, j + Len(sub)) = sub}
  IN IF found = {} THEN -1 ELSE MinOf(found)
find(s, sub) == FindFrom(s, sub, 0)

\* sub in s
contains(s, sub) == \E j \in 0..(Len(s) - Len(sub)) : SubSeq(s, j + 1, j + Len(sub)) = sub

\* str.replace(old, new, count); count < 0 replaces every occurrence
RECURSIVE replace_count(_, _, _, _)
replace_count(s, old, new, count) ==
  IF count = 0 THEN s
  ELSE LET i == find(s, old) IN
       IF i < 0 THEN s
       ELSE Upto(s, i) \o new \o
            replace_count(From(s, i + Len(old)), old, new, IF count < 0 THEN count ELSE count - 1)
replace(s, old, new) == replace_count(s, old, new, -1)

IsSpace(c) == c = " "

\* str.strip(chars) / lstrip / rstrip with the set of characters to remove
RECURSIVE lstrip_chars(_, _)
lstrip_chars(s, chars) ==
  IF s # "" /\ Head(s) \in chars THEN lstrip_chars(Tail(s), chars) ELSE s
RECURSIVE rstrip_chars(_, _)
rstrip_chars(s, chars) ==
  IF s # "" /\ CharAt(s, Len(s)) \in chars THEN rstrip_chars(SubSeq(s, 1, Len(s) - 1), chars) ELSE s
strip_chars(s, chars) == rstrip_chars(lstrip_chars(s, chars), chars)
\* str.strip()
strip(s) == strip_chars(s, {" "})

\* str.split(): the maximal runs of non-space characters
split(s) ==
  LET first == {i \in 1..Len(s) : ~IsSpace(CharAt(s, i)) /\ (i = 1 \/ IsSpace(CharAt(s, i - 1)))}
      last == {i \in 1..Len(s) : ~IsSpace(CharAt(s, i)) /\ (i = Len(s) \/ IsSpace(CharAt(s, i + 1)))}
      start(k) == CHOOSE a \in first : Cardinality({b \in first : b < a}) = k - 1
  IN [k \in 1..Cardinality(first) |->
        SubSeq(s, start(k), MinOf({e \in last : e >= start(k)}))]

\* str.split(sep, maxsplit); maxsplit < 0 splits at every separator
RECURSIVE split_sep(_, _, _)
split_sep(s, sep, maxsplit) ==
  IF maxsplit = 0 THEN <<s>>
  ELSE LET i == find(s, sep) IN
       IF i < 0 THEN <<s>>
       ELSE <<Upto(s, i)>> \o
            split_sep(From(s, i + Len(sep)), sep, IF maxsplit < 0 THEN maxsplit ELSE maxsplit - 1)

\* sep.join(words)
RECURSIVE join(_, _)
join(sep, words) ==
  IF words = <<>> THEN ""
  ELSE IF Len(words) = 1 THEN words[1]
  ELSE words[1] \o sep \o join(sep, Tail(words))

\* x in list
InList(x, list) == \E i \in 1..Len(list) : list[i] = x
\* list[:n]
Take(list, n) ==
  SubSeq(list, 1, IF n > Len(list) THEN Len(list) ELSE IF n < 0 THEN Len(list) + n ELSE n)
\* any(word in s for word in words)
ContainsAny(s, words) == \E i \in 1..Len(words) : contains(s, words[i])

(***************************************************************************)
(* ParaphraseModel: the pattern catalog                                    *)
(***************************************************************************)
\* _apply_semantic_substitutions: universal_replacements
universal_replacements ==
     "have" :> <<"possess", "own", "hold", "maintain">>
  @@ "get" :> <<"obtain", "acquire", "receive", "gain">>
  @@ "make" :> <<"create", "produce", "generate", "cause">>
  @@ "do" :> <<"perform", "execute", "carry out", "accomplish">>
  @@ "go" :> <<"proceed", "advance", "move", "travel">>
  @@ "come" :> <<"arrive", "approach", "emerge", "appear">>
  @@ "see" :> <<"observe", "notice", "perceive", "witness">>
  @@ "know" :> <<"understand", "comprehend", "realize", "recognize">>
  @@ "think" :> <<"believe", "consider", "suppose", "assume">>
  @@ "say" :> <<"state", "declare", "express", "mention">>
  @@ "give" :> <<"provide", "offer", "supply", "deliver">>
  @@ "take" :> <<"accept", "receive", "acquire", "obtain">>
  @@ "use" :> <<"employ", "utilize", "apply", "implement">>
  @@ "find" :> <<"discover", "locate", "identify", "uncover">>
  @@ "feel" :> <<"experience", "sense", "perceive", "encounter">>
  @@ "look" :> <<"appear", "seem", "examine", "observe">>
  @@ "want" :> <<"desire", "wish", "prefer", "seek">>
  @@ "need" :> <<"require", "demand", "necessitate", "call for">>
  @@ "try" :> <<"attempt", "endeavor", "strive", "effort to">>
  @@ "work" :> <<"function", "operate", "labor", "perform">>
  @@ "good" :> <<"excellent", "outstanding", "superior", "fine">>
  @@ "bad" :> <<"poor", "terrible", "awful", "inferior">>
  @@ "big" :> <<"large", "enormous", "huge", "massive">>
  @@ "small" :> <<"tiny", "little", "minimal", "compact">>
  @@ "new" :> <<"recent", "fresh", "modern", "current">>
  @@ "old" :> <<"ancient", "elderly", "aged", "former">>
  @@ "important" :> <<"crucial", "vital", "significant", "essential">>
  @@ "different" :> <<"distinct", "unique", "varied", "alternative">>
  @@ "easy" :> <<"simple", "straightforward", "effortless", "basic">>
  @@ "hard" :> <<"difficult", "challenging", "tough", "complex">>
  @@ "right" :> <<"correct", "accurate", "proper", "appropriate">>
  @@ "wrong" :> <<"incorrect", "mistaken", "erroneous", "false">>
  @@ "sure" :> <<"certain", "confident", "positive", "convinced">>
  @@ "clear" :> <<"obvious", "evident", "apparent", "transparent">>
  @@ "thing" :> <<"item", "object", "matter", "element">>
  @@ "person" :> <<"individual", "human", "character", "being">>
  @@ "time" :> <<"period", "moment", "duration", "interval">>
  @@ "place" :> <<"location", "position", "spot", "area">>
  @@ "way" :> <<"method", "approach", "manner", "technique">>
  @@ "problem" :> <<"issue", "difficulty", "challenge", "concern">>
  @@ "idea" :> <<"concept", "notion", "thought", "proposal">>
  @@ "part" :> <<"portion", "section", "component", "segment">>
  @@ "group" :> <<"team", "collection", "assembly", "gathering">>
  @@ "fact" :> <<"reality", "truth", "information", "detail">>
  @@ "very" :> <<"extremely", "highly", "exceptionally", "remarkably">>
  @@ "really" :> <<"truly", "genuinely", "actually", "indeed">>
  @@ "quite" :> <<"rather", "fairly", "somewhat", "considerably">>
  @@ "always" :> <<"constantly", "continuously", "perpetually", "invariably">>
  @@ "never" :> <<"not ever", "at no time", "under no circumstances">>
  @@ "often" :> <<"frequently", "regularly", "commonly", "repeatedly">>
  @@ "sometimes" :> <<"occasionally", "periodically", "intermittently", "at times">>
  @@ "quickly" :> <<"rapidly", "swiftly", "speedily", "promptly">>
  @@ "slowly" :> <<"gradually", "leisurely", "steadily", "carefully">>

\* _apply_semantic_substitutions: max_variants
max_variants == 3

\* _transform_temporal_expressions: frequency_replacements, in dict order
frequency_replacements ==
  << <<"every day", <<"daily", "on a daily basis", "each day">> >>,
     <<"every week", <<"weekly", "on a weekly basis", "each week">> >>,
     <<"always", <<"consistently", "without fail", "invariably">> >>,
     <<"never", <<"not once", "at no point", "under no circumstances">> >>,
     <<"often", <<"frequently", "on many occasions", "regularly">> >>,
     <<"sometimes", <<"occasionally", "from time to time", "periodically">> >> >>

\* _expand_contract_phrases: contractions, in dict order
contractions ==
  << <<"can't", "cannot">>, <<"won't", "will not">>, <<"don't", "do not">>,
     <<"doesn't", "does not">>, <<"isn't", "is not">>, <<"aren't", "are not">>,
     <<"I'm", "I am">>, <<"you're", "you are">>, <<"it's", "it is">>,
     <<"that's", "that is">>, <<"we're", "we are">>, <<"they're", "they are">> >>

\* _apply_style_grammar: the formal replace chain, in call order
style_grammar_formal ==
  << <<"can't", "cannot">>, <<"won't", "will not">>, <<"don't", "do not">>,
     <<"isn't", "is not">>, <<"aren't", "are not">>, <<"doesn't", "does not">>,
     <<"I'm", "I am">>, <<"you're", "you are">>, <<"it's", "it is">>,
     <<"that's", "that is">> >>

\* _apply_style_grammar: the casual replace chain, in call order
style_grammar_casual ==
  << <<"cannot", "can't">>, <<"will not", "won't">>, <<"do not", "don't">>,
     <<"is not", "isn't">> >>

\* _add_sentence_connectors: connectors
connectors_formal ==
  <<"Furthermore, ", "Additionally, ", "It is worth noting that ",
    "It should be emphasized that ", "Notably, ">>
connectors_other == <<"Also, ", "Plus, ", "By the way, ", "Actually, ", "Basically, ">>

\* _split_coordinated_clauses: coordinators
coordinators == <<" and ", " but ", " or ">>
\* _reorder_clauses: subordinators
subordinators == <<"because ", "when ", "if ", "although ", "while ", "since ">>

\* A chain of str.replace calls, applied left to right
RECURSIVE replace_chain(_, _)
replace_chain(s, pairs) ==
  IF pairs = <<>> THEN s
  ELSE replace_chain(replace(s, pairs[1][1], pairs[1][2]), Tail(pairs))

(***************************************************************************)
(* ParaphraseModel: the candidate generators.  A Python value that may be  *)
(* None is a sequence of no or one string.                                 *)
(***************************************************************************)
_transform_when_i_was(text) ==
  IF startswith(lower(text), "when i was ")
  THEN LET rest == From(text, 11) IN
       IF contains(lower(rest), ", i ")
       THEN LET parts == split_sep(rest, ", I ", 1) IN
            IF Len(parts) = 2
            THEN << "During my " \o parts[1] \o " period, I " \o parts[2],
                    "In my " \o parts[1] \o " days, I " \o parts[2],
                    "Back when I was " \o parts[1] \o ", I " \o parts[2] >>
            ELSE <<>>
       ELSE <<>>
  ELSE <<>>

_transform_used_to(text) ==
  IF contains(lower(text), "used to ")
  THEN LET index == find(lower(text), "used to ")
           before == Upto(text, index)
           after == From(text, index + 8)
       IN << before \o "would regularly " \o after,
             before \o "frequently " \o replace(replace(after, "play", "played"), "go", "went"),
             before \o "had a habit of " \o replace_count(after, " ", "ing ", 1) >>
  ELSE <<>>

RECURSIVE _frequency_variants(_, _, _)
_frequency_variants(text, freq, replacements) ==
  IF replacements = <<>> THEN <<>>
  ELSE LET new_text == replace(text, freq, replacements[1]) IN
       (IF new_text # text THEN <<new_text>> ELSE <<>>)
       \o _frequency_variants(text, freq, Tail(replacements))

RECURSIVE _transform_frequency(_, _)
_transform_frequency(text, table) ==
  IF table = <<>> THEN <<>>
  ELSE (IF contains(lower(text), table[1][1])
        THEN _frequency_variants(text, table[1][1], table[1][2])
        ELSE <<>>)
       \o _transform_frequency(text, Tail(table))

_transform_temporal_expressions(text) ==
  _transform_when_i_was(text) \o _transform_used_to(text)
  \o _transform_frequency(text, frequency_replacements)

RECURSIVE _recombine_rest(_, _)
_recombine_rest(combined, sentences) ==
  IF sentences = <<>> THEN combined
  ELSE _recombine_rest(combined \o ". " \o connectors_formal[1] \o strip(sentences[1]),
                       Tail(sentences))

_recombine_sentences(sentences) ==
  IF Len(sentences) < 2 THEN <<>>
  ELSE << _recombine_rest(strip(sentences[1]), Tail(sentences)) >>

\* Mutant: the split keeps the first clause only
_split_coordinated_clauses_first_only(text) ==
  IF \E i \in 1..Len(coordinators) : contains(text, coordinators[i])
  THEN LET c == CHOOSE i \in 1..Len(coordinators) :
                  /\ contains(text, coordinators[i])
                  /\ \A j \in 1..(i - 1) : ~contains(text, coordinators[j])
       IN << strip(split_sep(text, coordinators[c], 1)[1]) \o "." >>
  ELSE <<>>

RECURSIVE _split_on(_, _)
_split_on(text, coords) ==
  IF coords = <<>> THEN <<>>
  ELSE IF contains(text, coords[1])
       THEN LET parts == split_sep(text, coords[1], 1) IN
            << strip(parts[1]) \o ". " \o capitalize(strip(parts[2])) >>
       ELSE _split_on(text, Tail(coords))

_split_coordinated_clauses(text) == _split_on(text, coordinators)

RECURSIVE _reorder_on(_, _)
_reorder_on(text, subs) ==
  IF subs = <<>> THEN <<>>
  ELSE LET index == find(lower(text), subs[1]) IN
       IF index > 0
       THEN LET main_clause == rstrip_chars(strip(Upto(text, index)), {","})
                sub_clause == strip(From(text, index))
            IN << capitalize(sub_clause) \o ", " \o lower(main_clause) >>
       ELSE _reorder_on(text, Tail(subs))

_reorder_clauses(text) == _reorder_on(text, subordinators)

\* Mutant: style "academic" gets the formal connectors
_add_sentence_connectors_academic(text, style) ==
  IF endswith(text, "?") \/ endswith(text, "!") THEN <<>>
  ELSE LET connectors == IF style \in {"formal", "academic"}
                         THEN connectors_formal ELSE connectors_other
       IN << connectors[1] \o lower(text), connectors[2] \o lower(text) >>

_add_sentence_connectors(text, style) ==
  IF endswith(text, "?") \/ endswith(text, "!") THEN <<>>
  ELSE LET connectors == IF style = "formal" THEN connectors_formal ELSE connectors_other
       IN << connectors[1] \o lower(text), connectors[2] \o lower(text) >>

_change_sentence_types(text) ==
  (IF ~endswith(text, "?") /\ ~endswith(text, "!") /\ endswith(text, ".")
   THEN << Upto(text, Len(text) - 1) \o "!" >> ELSE <<>>)
  \o
  (IF startswith(text, "Where ") /\ endswith(text, "?")
   THEN << "I would like to know " \o lower(Upto(text, Len(text) - 1)) \o "." >> ELSE <<>>)

RECURSIVE _expand_all(_, _)
_expand_all(expanded, table) ==
  IF table = <<>> THEN expanded
  ELSE _expand_all(IF contains(expanded, table[1][1])
                   THEN replace(expanded, table[1][1], table[1][2])
                   ELSE expanded,
                   Tail(table))

_expand_contract_phrases(text, style) ==
  IF style = "formal"
  THEN LET expanded == _expand_all(text, contractions) IN
       (IF expanded # text THEN <<expanded>> ELSE <<>>)
       \o (IF startswith(text, "I ")
           THEN << "It is my belief that " \o lower(From(text, 2)) >> ELSE <<>>)
  ELSE <<>>

\* "if x and x != text" for an optional string x
Usable(opt, text) == IF opt # <<>> /\ opt[1] # "" /\ opt[1] # text THEN opt ELSE <<>>

_apply_syntactic_transformations(text, style) ==
  _transform_temporal_expressions(text)
  \o (IF contains(text, ". ")
      THEN LET sentences == split_sep(text, ". ", -1) IN
           IF Len(sentences) > 1 THEN Usable(_recombine_sentences(sentences), text) ELSE <<>>
      ELSE IF contains(text, " and ") \/ contains(text, " but ") \/ contains(text, " or ")
           THEN Usable(_split_coordinated_clauses(text), text)
           ELSE <<>>)
  \o Usable(_reorder_clauses(text), text)
  \o _add_sentence_connectors(text, style)
  \o _change_sentence_types(text)
  \o _expand_contract_phrases(text, style)

_apply_style_grammar(text, style) ==
  IF style = "formal" THEN replace_chain(text, style_grammar_formal)
  ELSE IF style = "casual" THEN replace_chain(text, style_grammar_casual)
  ELSE text

\* one word of one variant of _apply_semantic_substitutions
_substitute_word(word, variant_index) ==
  LET clean_word == strip_chars(lower(word), CharsOf(".,!?;:\"()[]{}"))
      punctuation == From(word, Len(clean_word))
  IN IF clean_word \in DOMAIN universal_replacements
     THEN LET replacements == universal_replacements[clean_word] IN
          IF Len(replacements) > variant_index
          THEN replacements[variant_index + 1] \o punctuation
          ELSE word
     ELSE word

_semantic_variant(text, style, variant_index) ==
  LET words == split(text)
      new_words == [i \in 1..Len(words) |-> _substitute_word(words[i], variant_index)]
  IN _apply_style_grammar(join(" ", new_words), style)

RECURSIVE _semantic_from(_, _, _)
_semantic_from(text, style, variant_index) ==
  IF variant_index >= max_variants THEN <<>>
  ELSE LET result == _semantic_variant(text, style, variant_index) IN
       (IF result # text THEN <<result>> ELSE <<>>)
       \o _semantic_from(text, style, variant_index + 1)

_apply_semantic_substitutions(text, style) == _semantic_from(text, style, 0)

_change_perspective(text) ==
  IF startswith(lower(text), "i ")
  THEN << replace_count(replace_count(text, "I ", "One ", 1), "my ", "one's ", 1) >>
  ELSE <<>>

intensity_blockers == <<"somewhat", "rather", "quite", "fairly">>
intensity_targets == {"good", "bad", "difficult", "easy", "important", "clear"}

_modify_intensity(text, style) ==
  IF style = "formal" /\ ~ContainsAny(lower(text), intensity_blockers)
  THEN LET words == split(text)
           hits == {i \in 1..Len(words) : lower(words[i]) \in intensity_targets}
       IN IF hits = {} THEN <<>>
          ELSE LET first == CHOOSE i \in hits : \A j \in hits : i <= j
                   marked == [i \in 1..Len(words) |->
                                IF i = first THEN "somewhat " \o words[i] ELSE words[i]]
               IN << join(" ", marked) >>
  ELSE <<>>

_modify_relationships(text) ==
  IF contains(text, ". ")
  THEN LET sentences == split_sep(text, ". ", -1) IN
       IF Len(sentences) = 2
       THEN << strip(sentences[1]) \o ". Consequently, " \o lower(strip(sentences[2])) >>
       ELSE <<>>
  ELSE <<>>

_apply_discourse_restructuring(text, style) ==
  _change_perspective(text) \o _modify_intensity(text, style) \o _modify_relationships(text)

(***************************************************************************)
(* ParaphraseModel: the guaranteed fallback                                *)
(***************************************************************************)
hedge_words == <<"perhaps", "possibly", "likely", "generally">>
temporal_words == <<"currently", "presently", "now", "today">>

_try_tense_transformation(text) ==
  IF contains(text, " is ") /\ ~contains(text, " is being ")
  THEN << replace(text, " is ", " is currently ") >>
  ELSE IF ~ContainsAny(lower(text), temporal_words)
       THEN << "Currently, " \o lower(text) >>
       ELSE <<>>

\* Strategy 1 with the first connector of _add_sentence_connectors as the qualifier
_strategy1_connector(text, style, needed) ==
  << (IF style = "formal" THEN "Furthermore, " ELSE "Also, ") \o lower(text) >>

\* Strategy 1 of _ensure_minimum_transformations
_strategy1(text, style, needed) ==
  LET r1 == IF style = "formal" /\ ~ContainsAny(lower(text), hedge_words)
            THEN << "Perhaps " \o lower(text) >> ELSE <<>>
  IN r1 \o (IF Len(r1) < needed THEN << "Generally speaking, " \o lower(text) >> ELSE <<>>)

\* Strategy 2 of _ensure_minimum_transformations
_strategy2(results, text, style, needed) ==
  IF Len(results) < needed /\ endswith(text, ".") /\ style = "formal"
  THEN Append(results,
              IF startswith(lower(text), "the ")
              THEN "It is noteworthy that " \o lower(text)
              ELSE "It is important to note that " \o lower(text))
  ELSE results

\* Strategy 3 without its casual variant
_strategy3_any_style(results, text, style, needed) ==
  IF Len(results) < needed
  THEN Append(results, "It should be noted that " \o lower(text))
  ELSE results

\* Strategy 3 of _ensure_minimum_transformations
_strategy3(results, text, style, needed) ==
  IF Len(results) < needed
  THEN Append(results,
              IF style = "casual" THEN "Actually, " \o lower(text)
              ELSE "It should be noted that " \o lower(text))
  ELSE results

\* Strategy 4 of _ensure_minimum_transformations
_strategy4(results, text, needed) ==
  IF Len(results) < needed
  THEN results \o Usable(_try_tense_transformation(text), text)
  ELSE results

_ensure_minimum_transformations(text, style, needed) ==
  Take(_strategy4(_strategy3(_strategy2(_strategy1(text, style, needed),
                                        text, style, needed),
                             text, style, needed),
                  text, needed),
       needed)

(***************************************************************************)
(* ParaphraseModel._fallback_paraphrase, stage by stage                    *)
(***************************************************************************)
\* "Remove duplicates and original text": the loop over results
RECURSIVE _remove_duplicates(_, _, _)
_remove_duplicates(results, text, unique_results) ==
  IF results = <<>> THEN unique_results
  ELSE LET result == results[1] IN
       _remove_duplicates(Tail(results), text,
                          IF result # "" /\ strip(result) # strip(text)
                             /\ ~InList(result, unique_results)
                          THEN Append(unique_results, result)
                          ELSE unique_results)

\* Only the first guaranteed result is considered
_add_guaranteed_first_only(guaranteed_results, text, unique_results) ==
  IF guaranteed_results = <<>> THEN unique_results
  ELSE LET result == guaranteed_results[1] IN
       IF result # "" /\ ~InList(result, unique_results) /\ result # text
       THEN Append(unique_results, result)
       ELSE unique_results

\* The guaranteed results are put in front of the pool
_add_guaranteed_in_front(guaranteed_results, text, unique_results) ==
  guaranteed_results \o unique_results

\* The loop that appends the guaranteed results
RECURSIVE _add_guaranteed(_, _, _)
_add_guaranteed(guaranteed_results, text, unique_results) ==
  IF guaranteed_results = <<>> THEN unique_results
  ELSE LET result == guaranteed_results[1] IN
       _add_guaranteed(Tail(guaranteed_results), text,
                       IF result # "" /\ ~InList(result, unique_results) /\ result # text
                       THEN Append(unique_results, result)
                       ELSE unique_results)

\* The candidate pool before deduplication
_generate_results(text, style) ==
  _apply_syntactic_transformations(text, style)
  \o _apply_semantic_substitutions(text, style)
  \o _apply_discourse_restructuring(text, style)

\* The deficit handed to the fallback generator is one too small
_guaranteed_for_one_less(unique_results, text, style, num_alternatives) ==
  IF Len(unique_results) < num_alternatives
  THEN _ensure_minimum_transformations(text, style, num_alternatives - Len(unique_results) - 1)
  ELSE <<>>

\* The guaranteed results asked for a pool of unique_results
_guaranteed_for(unique_results, text, style, num_alternatives) ==
  IF Len(unique_results) < num_alternatives
  THEN _ensure_minimum_transformations(text, style, num_alternatives - Len(unique_results))
  ELSE <<>>

\* The pool is returned without the cut to num_alternatives
_return_value_uncut(unique_results, text, num_alternatives) ==
  IF unique_results # <<>> THEN unique_results ELSE <<text>>

\* The return statement
_return_value(unique_results, text, num_alternatives) ==
  IF unique_results # <<>> THEN Take(unique_results, num_alternatives) ELSE <<text>>

_fallback_paraphrase(text, style, num_alternatives) ==
  LET unique_results == _remove_duplicates(_generate_results(text, style), text, <<>>)
      guaranteed_results == _guaranteed_for(unique_results, text, style, num_alternatives)
  IN _return_value(_add_guaranteed(guaranteed_results, text, unique_results),
                   text, num_alternatives)

\* ParaphraseModel.paraphrase
paraphrase(text, style, num_alternatives) == _fallback_paraphrase(text, style, num_alternatives)

(***************************************************************************)
(* The regular expressions of grammar_corrector.py.  A pattern is a        *)
(* sequence of elements: <<"b">> is \b, <<"lit", w>> the literal w,        *)
(* <<"s+">> is \s+, <<"w+">> and <<"w+ed">> the groups (\w+) and (\w+ed)  *)
(* and <<"alt", alts>> the group (a1|a2|...), each alternative a pattern.  *)
(* Every pattern is used with re.IGNORECASE.  A match is the offset where  *)
(* it ends and the span of group 1; offsets count the characters before    *)
(* the position.                                                           *)
(***************************************************************************)
\* \w
WordChars == CharsOf(UpperChars) \cup CharsOf(LowerChars) \cup CharsOf(DigitChars) \cup {"_"}
IsWordChar(c) == c \in WordChars

\* \b at offset i of s
Boundary(s, i) ==
  (i >= 1 /\ IsWordChar(CharAt(s, i))) # (i < Len(s) /\ IsWordChar(CharAt(s, i + 1)))

\* The offset after the longest run of whitespace (\s+) that starts at offset i
SpacesFrom(s, i) ==
  MinOf({j \in i..Len(s) : j = Len(s) \/ ~IsSpace(CharAt(s, j + 1))})

\* The offset after the longest run of word characters (\w+) that starts at offset i
WordFrom(s, i) ==
  MinOf({j \in i..Len(s) : j = Len(s) \/ ~IsWordChar(CharAt(s, j + 1))})

\* The literal w at offset i of s, whatever the case
LitAt(s, i, w) ==
  i + Len(w) <= Len(s) /\ lower(SubSeq(s, i + 1, i + Len(w))) = lower(w)

NoMatch == [end |-> -1, gs |-> 0, ge |-> 0]

\* re.match of pat at offset i of s; gs, ge: the span of group 1 so far
RECURSIVE MatchAt(_, _, _, _, _)
RECURSIVE MatchAlt(_, _, _, _)
MatchAt(s, i, pat, gs, ge) ==
  IF pat = <<>> THEN [end |-> i, gs |-> gs, ge |-> ge]
  ELSE LET e == Head(pat)
           rest == Tail(pat)
       IN CASE e[1] = "b" ->
                 IF Boundary(s, i) THEN MatchAt(s, i, rest, gs, ge) ELSE NoMatch
            [] e[1] = "lit" ->
                 IF LitAt(s, i, e[2]) THEN MatchAt(s, i + Len(e[2]), rest, gs, ge) ELSE NoMatch
            [] e[1] = "s+" ->
                 LET j == SpacesFrom(s, i) IN
                 IF j > i THEN MatchAt(s, j, rest, gs, ge) ELSE NoMatch
            [] e[1] = "w+ed" ->
                 \* followed by \s+: the word ends where the run of \w ends
                 LET j == WordFrom(s, i) IN
                 IF j - i >= 3 /\ lower(SubSeq(s, j - 1, j)) = "ed"
                 THEN MatchAt(s, j, rest, i, j) ELSE NoMatch
            [] e[1] = "w+" ->
                 \* followed by a space: the word ends where the run of \w ends
                 LET j == WordFrom(s, i) IN
                 IF j > i THEN MatchAt(s, j, rest, i, j) ELSE NoMatch
            [] e[1] = "alt" -> MatchAlt(s, i, e[2], rest)

\* The first alternative of the group that lets the rest of the pattern match
MatchAlt(s, i, alts, rest) ==
  IF alts = <<>> THEN NoMatch
  ELSE LET m == MatchAt(s, i, Head(alts), 0, 0) IN
       IF m.end < 0 THEN MatchAlt(s, i, Tail(alts), rest)
       ELSE LET r == MatchAt(s, m.end, rest, i, m.end) IN
            IF r.end >= 0 THEN r ELSE MatchAlt(s, i, Tail(alts), rest)


\* The replacement template: <<"lit", w>> is the text w, <<"g">> is \1
RECURSIVE Expand(_, _, _)
Expand(s, m, tmpl) ==
  IF tmpl = <<>> THEN ""
  ELSE (IF Head(tmpl)[1] = "g" THEN SubSeq(s, m.gs + 1, m.ge) ELSE Head(tmpl)[2])
       \o Expand(s, m, Tail(tmpl))

\* The characters a match of pat can begin with: those of its first literal,
\* in either case, or whitespace
FirstChars(pat) ==
  LET e == IF Head(pat)[1] = "b" THEN pat[2] ELSE pat[1] IN
  IF e[1] = "lit" THEN {LowerChar(CharAt(e[2], 1)), UpperChar(CharAt(e[2], 1))} ELSE {" "}

\* The offsets from i on where pat matches
MatchStarts(s, i, pat) ==
  LET first == FirstChars(pat) IN
  {j \in i..(Len(s) - 1) : CharAt(s, j + 1) \in first /\ MatchAt(s, j, pat, 0, 0).end > j}

\* re.sub(pat, tmpl, s, flags=re.IGNORECASE): the matches from left to right,
\* none overlapping; no pattern of the scripts matches the empty string
RECURSIVE SubFrom(_, _, _, _)
SubFrom(s, i, pat, tmpl) ==
  LET starts == MatchStarts(s, i, pat) IN
  IF starts = {} THEN SubSeq(s, i + 1, Len(s))
  ELSE LET j == MinOf(starts)
           m == MatchAt(s, j, pat, 0, 0)
       IN SubSeq(s, i + 1, j) \o Expand(s, m, tmpl) \o SubFrom(s, m.end, pat, tmpl)
re_sub(pat, tmpl, s) == SubFrom(s, 0, pat, tmpl)

\* re.search(pat, s)
re_search(pat, s) == MatchStarts(s, 0, pat) # {}

\* The elements of a pattern
WB == <<"b">>
WS == <<"s+">>
Lit(w) == <<"lit", w>>
Grp == <<"g">>
\* The words of a phrase with \s+ between them: "the store" is the\s+store
RECURSIVE PhraseOf(_)
PhraseOf(words) ==
  IF words = <<>> THEN <<>>
  ELSE IF Len(words) = 1 THEN <<Lit(words[1])>>
  ELSE <<Lit(words[1]), WS>> \o PhraseOf(Tail(words))
Phrase(p) == PhraseOf(split(p))
\* The group (a1|a2|...) of phrases
Alt(alts) == <<"alt", [i \in 1..Len(alts) |-> Phrase(alts[i])]>>
\* \bword\b
Word(w) == <<WB, Lit(w), WB>>

\* re.sub(r"\bW\s+.+\s+is\b", lambda m: m.group(0).replace(" is", " are"), s):
\* .+ is greedy, so the match ends at the last " is" that ends a word
\* the ends of the " is" a match that begins after offset p can end with
IsEnds(s, p) ==
  {e \in (p + 5)..Len(s) :
     LitAt(s, e - 2, "is") /\ Boundary(s, e) /\ IsSpace(CharAt(s, e - 2))}
re_sub_greedy_is(w, s) ==
  LET starts == {i \in 0..(Len(s) - 1) :
                   /\ Boundary(s, i) /\ LitAt(s, i, w)
                   /\ i + Len(w) < Len(s) /\ IsSpace(CharAt(s, i + Len(w) + 1))
                   /\ IsEnds(s, i + Len(w)) # {}}
  IN IF starts = {} THEN s
     ELSE LET i == MinOf(starts)
              e == MaxOf(IsEnds(s, i + Len(w)))
          IN SubSeq(s, 1, i) \o replace(SubSeq(s, i + 1, e), " is", " are")
             \o SubSeq(s, e + 1, Len(s))

(***************************************************************************)
(* GrammarCorrector._rule_based_correct, block by block.  Each block takes *)
(* and gives the pair <<corrected, corrections>>; a corrections entry is   *)
(* the record the script appends, its confidence in hundredths.            *)
(***************************************************************************)
Entry(original, corrected, type, confidence) ==
  [original |-> original, corrected |-> corrected, type |-> type, confidence |-> confidence]

\* "SHow" -> "Show": the first two characters upper-case, the word not
HasWeirdCapitalization(word) ==
  /\ Len(word) > 1
  /\ IsUpperChar(CharAt(word, 1))
  /\ IsUpperChar(CharAt(word, 2))
  /\ ~isupper(word)
FixWord(word) == IF HasWeirdCapitalization(word) THEN CharAt(word, 1) \o lower(Tail(word)) ELSE word

\* Fix weird capitalization patterns: one entry per word that is fixed
fix_capitalization(r) ==
  LET words == split(r[1])
      fixed == [i \in 1..Len(words) |-> FixWord(words[i])]
      new == [i \in 1..Len(words) |->
                IF HasWeirdCapitalization(words[i])
                THEN <<Entry(words[i], fixed[i], "Capitalization", 95)>> ELSE <<>>]
      Concat[i \in 0..Len(words)] == IF i = 0 THEN <<>> ELSE Concat[i - 1] \o new[i]
  IN <<join(" ", fixed), r[2] \o Concat[Len(words)]>>

\* Fix sentence capitalization
fix_sentence_capitalization(r) ==
  IF r[1] # "" /\ ~IsUpperChar(CharAt(r[1], 1))
  THEN LET corrected == UpperChar(CharAt(r[1], 1)) \o Tail(r[1]) IN
       <<corrected,
         Append(r[2], Entry("lowercase '" \o CharAt(r[1], 1) \o "'",
                            "uppercase '" \o CharAt(corrected, 1) \o "'",
                            "Sentence Capitalization", 95))>>
  ELSE r

\* r"\bW\s+(a1|a2|...)" -> r"R \1"
Confusion(w, alts, right) ==
  [pattern |-> <<WB, Lit(w), WS, Alt(alts)>>, replacement |-> <<Lit(right \o " "), Grp>>]
\* r"\bphrase" -> "right"
Fixed(pattern, right) == [pattern |-> pattern, replacement |-> <<Lit(right)>>]

\* Fix common word confusions
word_fixes ==
  << Fixed(Word("youre"), "your"),
     Confusion("you're", <<"face", "name", "car", "house", "book", "phone", "problem",
                           "fault", "turn">>, "your"),
     Confusion("there", <<"car", "house", "book", "problem">>, "their"),
     Confusion("their", <<"going", "coming", "here">>, "they're"),
     Confusion("its", <<"going", "coming", "time">>, "it's"),
     Confusion("it's", <<"color", "size", "name", "place">>, "its"),
     Confusion("to", <<"much", "many", "late", "early", "big", "small">>, "too"),
     Confusion("too", <<"go", "come", "see", "the store">>, "to"),
     Confusion("then", <<"better", "worse", "bigger", "smaller">>, "than"),
     Fixed(<<WB>> \o Phrase("better then"), "better than"),
     Confusion("accept", <<"for", "that">>, "except"),
     Confusion("except", <<"the offer", "this gift">>, "accept"),
     Confusion("effect", <<"me", "you", "him", "her", "them", "us">>, "affect"),
     Fixed(<<WB>> \o Phrase("an affect"), "an effect"),
     Confusion("loose", <<"the game", "weight", "money">>, "lose"),
     Confusion("lose", <<"fitting", "clothing">>, "loose") >>

\* for pattern, replacement in fixes: re.sub, and an entry when the text changed
RECURSIVE apply_fixes(_, _, _)
apply_fixes(fixes, r, entry) ==
  IF fixes = <<>> THEN r
  ELSE LET corrected == re_sub(Head(fixes).pattern, Head(fixes).replacement, r[1]) IN
       IF corrected # r[1]
       THEN apply_fixes(Tail(fixes), <<corrected, Append(r[2], entry)>>, entry)
       ELSE apply_fixes(Tail(fixes), r, entry)

fix_word_confusions(r) ==
  apply_fixes(word_fixes, r, Entry("word confusion", "fixed word choice", "Word Choice", 90))

\* Fix contractions
contraction_fixes ==
  << <<"couldnt", "couldn't">>, <<"cant", "can't">>, <<"dont", "don't">>,
     <<"wont", "won't">>, <<"isnt", "isn't">>, <<"arent", "aren't">>,
     <<"wasnt", "wasn't">>, <<"werent", "weren't">>, <<"hasnt", "hasn't">>,
     <<"havent", "haven't">>, <<"hadnt", "hadn't">>, <<"shouldnt", "shouldn't">>,
     <<"wouldnt", "wouldn't">>, <<"didnt", "didn't">>, <<"doesnt", "doesn't">> >>

\* The contractions fixed with one entry for the whole family
RECURSIVE apply_contraction_fixes_one_entry(_, _)
apply_contraction_fixes_one_entry(fixes, r) ==
  IF fixes = <<>> THEN r
  ELSE LET wrong == Head(fixes)[1]
           right == Head(fixes)[2]
           corrected == re_sub(Word(wrong), <<Lit(right)>>, r[1])
           seen == \E i \in 1..Len(r[2]) : r[2][i].type = "Contraction"
       IN IF corrected # r[1] /\ ~seen
          THEN apply_contraction_fixes_one_entry(Tail(fixes),
                 <<corrected, Append(r[2], Entry(wrong, right, "Contraction", 90))>>)
          ELSE apply_contraction_fixes_one_entry(Tail(fixes), <<corrected, r[2]>>)

\* for wrong, right in contraction_fixes.items(): one entry per key that changed the text
RECURSIVE apply_contraction_fixes(_, _)
apply_contraction_fixes(fixes, r) ==
  IF fixes = <<>> THEN r
  ELSE LET wrong == Head(fixes)[1]
           right == Head(fixes)[2]
           corrected == IF contains(lower(r[1]), wrong)
                        THEN re_sub(Word(wrong), <<Lit(right)>>, r[1]) ELSE r[1]
       IN IF corrected # r[1]
          THEN apply_contraction_fixes(Tail(fixes),
                 <<corrected, Append(r[2], Entry(wrong, right, "Contraction", 90))>>)
          ELSE apply_contraction_fixes(Tail(fixes), r)

fix_contractions(r) == apply_contraction_fixes(contraction_fixes, r)

\* Fix subject-verb agreement: the patterns with a fixed replacement
agreement_fixes ==
  << Fixed(<<WB>> \o Phrase("people is") \o <<WB>>, "people are"),
     Fixed(<<WB>> \o Phrase("we was") \o <<WB>>, "we were"),
     Fixed(<<WB>> \o Phrase("they was") \o <<WB>>, "they were"),
     Fixed(<<WB>> \o Phrase("you was") \o <<WB>>, "you were"),
     Fixed(<<WB>> \o Phrase("I are") \o <<WB>>, "I am"),
     Fixed(<<WB>> \o Phrase("he are") \o <<WB>>, "he is"),
     Fixed(<<WB>> \o Phrase("she are") \o <<WB>>, "she is"),
     Fixed(<<WB>> \o Phrase("it are") \o <<WB>>, "it is") >>
\* and the patterns whose replacement is the lambda
agreement_quantifiers == <<"many", "few", "several">>

RECURSIVE apply_quantifier_fixes(_, _, _)
apply_quantifier_fixes(quantifiers, r, entry) ==
  IF quantifiers = <<>> THEN r
  ELSE LET corrected == re_sub_greedy_is(Head(quantifiers), r[1]) IN
       IF corrected # r[1]
       THEN apply_quantifier_fixes(Tail(quantifiers), <<corrected, Append(r[2], entry)>>, entry)
       ELSE apply_quantifier_fixes(Tail(quantifiers), r, entry)

fix_agreement(r) ==
  LET entry == Entry("subject-verb disagreement", "fixed agreement", "Subject-Verb Agreement", 95)
  IN apply_quantifier_fixes(agreement_quantifiers, apply_fixes(agreement_fixes, r, entry), entry)

\* Fix verb tense consistency
tense_fixes ==
  << [pattern |-> <<WB, Lit("have"), WS, <<"w+ed">>, WS, Lit("yesterday"), WB>>,
      replacement |-> <<Lit("had "), Grp, Lit(" yesterday")>>],
     [pattern |-> <<WB, Lit("will"), WS, <<"w+ed">>, WS, Lit("tomorrow"), WB>>,
      replacement |-> <<Lit("will "), Grp, Lit(" tomorrow")>>],
     Fixed(<<WB>> \o Phrase("yesterday I will") \o <<WB>>, "yesterday I"),
     Fixed(<<WB>> \o Phrase("tomorrow I was") \o <<WB>>, "tomorrow I will be") >>

fix_tense(r) ==
  apply_fixes(tense_fixes, r, Entry("tense inconsistency", "fixed tense", "Verb Tense", 85))

\* Fix double negatives
negative_contractions == <<"don't", "can't", "won't", "couldn't", "wouldn't", "shouldn't">>
negative_words == <<"no", "nothing", "nowhere", "nobody", "never">>

\* re.search(r"\b(don't|...)\b.*\b(no|...)\b", s, re.IGNORECASE)
has_double_negative(s) ==
  \E a \in 1..Len(negative_contractions) :
    \E i \in MatchStarts(s, 0, Word(negative_contractions[a])) :
      \E b \in 1..Len(negative_words) :
        MatchStarts(s, i + Len(negative_contractions[a]), Word(negative_words[b])) # {}

\* "Simple double negative fixes": the re.sub calls in the order they run
double_negative_fixes ==
  << Fixed(Word("nowhere"), "anywhere"),
     Fixed(Word("nothing"), "anything"),
     Fixed(Word("nobody"), "anybody"),
     Fixed(<<WB>> \o Phrase("never no") \o <<WB>>, "never any") >>

\* A run of re.sub calls, each on the result of the one before
RECURSIVE re_sub_all(_, _)
re_sub_all(fixes, s) ==
  IF fixes = <<>> THEN s
  ELSE LET fixed == re_sub(Head(fixes).pattern, Head(fixes).replacement, s) IN
       IF fixed = s THEN re_sub_all(Tail(fixes), s) ELSE re_sub_all(Tail(fixes), fixed)

\* "if corrected != original_...: corrections.append(entry)"
with_entry(r, corrected, entry) ==
  <<corrected, IF corrected # r[1] THEN Append(r[2], entry) ELSE r[2]>>

fix_double_negatives(r) ==
  IF has_double_negative(r[1])
  THEN with_entry(r, re_sub_all(double_negative_fixes, r[1]),
                  Entry("double negative", "single negative", "Double Negative", 90))
  ELSE r

\* Fix spacing and punctuation: whitespace before , . ! ?
spacing_fixes ==
  << Fixed(<<WS, Lit(",")>>, ","), Fixed(<<WS, Lit(".")>>, "."),
     Fixed(<<WS, Lit("!")>>, "!"), Fixed(<<WS, Lit("?")>>, "?") >>

fix_spacing(r) ==
  with_entry(r, re_sub_all(spacing_fixes, r[1]),
             Entry("spacing issues", "fixed spacing", "Punctuation", 80))

\* Ensure proper sentence ending
fix_sentence_ending(r) ==
  IF r[1] # "" /\ CharAt(r[1], Len(r[1])) \notin {".", "!", "?"}
  THEN <<r[1] \o ".",
         Append(r[2], Entry("missing punctuation", "added period", "Sentence Ending", 90))>>
  ELSE r

\* The blocks of _rule_based_correct in the order they run
rule_blocks ==
  <<"capitalization", "sentence_capitalization", "word_fixes", "contraction_fixes",
    "agreement_fixes", "tense_fixes", "double_negatives", "spacing", "sentence_ending">>

apply_block(block, r) ==
  CASE block = "capitalization" -> fix_capitalization(r)
    [] block = "sentence_capitalization" -> fix_sentence_capitalization(r)
    [] block = "word_fixes" -> fix_word_confusions(r)
    [] block = "contraction_fixes" -> fix_contractions(r)
    [] block = "agreement_fixes" -> fix_agreement(r)
    [] block = "tense_fixes" -> fix_tense(r)
    [] block = "double_negatives" -> fix_double_negatives(r)
    [] block = "spacing" -> fix_spacing(r)
    [] block = "sentence_ending" -> fix_sentence_ending(r)

\* The pair after the first n blocks
RECURSIVE rule_based_upto(_, _)
rule_based_upto(text, n) ==
  IF n = 0 THEN <<text, <<>>>>
  ELSE apply_block(rule_blocks[n], rule_based_upto(text, n - 1))

_rule_based_correct(text) == rule_based_upto(text, Len(rule_blocks))


(***************************************************************************)
(* GrammarCorrector: the model-backed path                                 *)
(***************************************************************************)
\* _ai_correct: prompts
prompts ==
  << "Fix all spelling and grammar errors: ",
     "Correct all mistakes in this sentence: ",
     "Fix spelling errors and grammar: ",
     "Proofread and correct: ",
     "Fix typos and grammar in: " >>

\* _clean_ai_response: patterns
response_patterns ==
  << "Here is the corrected sentence:", "Corrected sentence:", "Grammar corrected:",
     "Fixed sentence:", "Corrected:", "Fixed:", "The corrected sentence is:",
     "Answer:", "Response:", "Result:" >>

RECURSIVE strip_response_patterns(_, _)
strip_response_patterns(patterns, cleaned) ==
  IF patterns = <<>> THEN cleaned
  ELSE strip_response_patterns(Tail(patterns),
         IF startswith(lower(cleaned), lower(Head(patterns)))
         THEN strip(From(cleaned, Len(Head(patterns)))) ELSE cleaned)

\* "Remove the original prompt if it appears in the response"
remove_prompt(response, prompt) ==
  IF contains(response, prompt) THEN strip(replace(response, prompt, "")) ELSE response
\* "Clean up extra whitespace": re.sub(r'\s+', ' ', cleaned).strip()
clean_whitespace(cleaned) == join(" ", split(cleaned))
\* "Remove quotes if the entire response is quoted"
remove_quotes(cleaned) ==
  IF startswith(cleaned, "\"") /\ endswith(cleaned, "\"")
  THEN strip(SubSeq(cleaned, 2, Len(cleaned) - 1)) ELSE cleaned

_clean_ai_response(response, prompt) ==
  remove_quotes(clean_whitespace(
    strip_response_patterns(response_patterns, remove_prompt(response, prompt))))

\* _post_process_ai_result: spelling_fixes
spelling_fixes ==
  << <<"Showe", "Show">>, <<"hte", "the">>, <<"teh", "the">>, <<"adn", "and">>,
     <<"yuo", "you">>, <<"your", "you're">>, <<"youre", "you're">>,
     <<"there", "their">>, <<"their", "there">>, <<"wont", "won't">>,
     <<"cant", "can't">>, <<"dont", "don't">>, <<"couldnt", "couldn't">>,
     <<"shouldnt", "shouldn't">>, <<"wouldnt", "wouldn't">>, <<"didnt", "didn't">>,
     <<"doesnt", "doesn't">>, <<"isnt", "isn't">>, <<"arent", "aren't">>,
     <<"wasnt", "wasn't">>, <<"werent", "weren't">> >>

RECURSIVE apply_spelling_fixes(_, _)
apply_spelling_fixes(fixes, result) ==
  IF fixes = <<>> THEN result
  ELSE LET fixed == re_sub(Word(Head(fixes)[1]), <<Lit(Head(fixes)[2])>>, result) IN
       IF fixed = result THEN apply_spelling_fixes(Tail(fixes), result)
       ELSE apply_spelling_fixes(Tail(fixes), fixed)

possessive_nouns ==
  <<"face", "name", "car", "house", "book", "phone", "problem", "fault", "turn", "money",
    "bag", "clothes", "hair", "eyes", "hands", "feet", "dog", "cat", "family", "friend",
    "job", "work", "idea", "opinion", "choice">>

\* "Fix capitalization issues": the words, and the first letter
fix_words(result) ==
  LET words == split(result) IN join(" ", [i \in 1..Len(words) |-> FixWord(words[i])])
capitalize_first(result) ==
  IF result # "" /\ ~IsUpperChar(CharAt(result, 1))
  THEN UpperChar(CharAt(result, 1)) \o Tail(result) ELSE result

\* "Fix common grammar patterns" and "Fix specific possessive vs contraction
\* issues": the re.sub calls in the order they run
grammar_fixes ==
  << [pattern |-> <<WB, Lit("me and my "), <<"w+">>, Lit(" was"), WB>>,
      replacement |-> <<Lit("My "), Grp, Lit(" and I were")>>],
     [pattern |-> <<WB, Lit("me and "), <<"w+">>, Lit(" was"), WB>>,
      replacement |-> <<Lit("My "), Grp, Lit(" and I were")>>],
     [pattern |-> <<Lit("you're"), WS, Alt(possessive_nouns)>>,
      replacement |-> <<Lit("your "), Grp>>],
     [pattern |-> <<Lit("there"), WS,
                    Alt(<<"car", "house", "book", "problem", "family", "dog", "cat">>)>>,
      replacement |-> <<Lit("their "), Grp>>],
     [pattern |-> <<Lit("it's"), WS,
                    Alt(<<"color", "size", "name", "place", "smell", "taste", "texture">>)>>,
      replacement |-> <<Lit("its "), Grp>>] >>

\* "Ensure proper sentence ending"
end_sentence(result) ==
  IF result # "" /\ CharAt(result, Len(result)) \notin {".", "!", "?"}
  THEN result \o "." ELSE result

_post_process_ai_result(text) ==
  end_sentence(re_sub_all(grammar_fixes,
    capitalize_first(fix_words(apply_spelling_fixes(spelling_fixes, text)))))

\* _score_correction: improvements
improvements ==
  << <<"youre", "your">>, <<"Showe", "Show">>, <<"hte", "the">>, <<"teh", "the">>,
     <<"adn", "and">>, <<"there", "their">>, <<"SHow", "Show">>, <<"cant", "can't">>,
     <<"dont", "don't">>, <<"wont", "won't">>, <<"was", "were">>,
     <<"nowhere", "anywhere">>, <<"couldnt", "couldn't">>, <<"shouldnt", "shouldn't">>,
     <<"wouldnt", "wouldn't">> >>

your_nouns == <<"face", "name", "car", "house", "book", "phone", "problem", "fault", "turn">>

\* _score_correction: the bonuses and penalties summed, in hundredths
score_sum(original, corrected) ==
  LET original_lower == lower(original)
      corrected_lower == lower(corrected)
      improved == {i \in 1..Len(improvements) :
                     /\ contains(original_lower, improvements[i][1])
                     /\ contains(corrected_lower, improvements[i][2])}
  IN 50
     + (IF IsUpperChar(CharAt(corrected, 1)) THEN 10 ELSE 0)
     + (IF CharAt(corrected, Len(corrected)) \in {".", "!", "?"} THEN 10 ELSE 0)
     + (IF corrected_lower # original_lower THEN 20 ELSE 0)
     + 15 * Cardinality(improved)
     - (IF re_search(<<Lit("you're"), WS, Alt(your_nouns)>>, corrected)
        THEN 30 ELSE 0)
     + (IF re_search(<<Lit("your"), WS, Alt(your_nouns)>>, corrected)
        THEN 20 ELSE 0)

\* "Penalize if too different in length"
too_different(original, corrected) ==
  LET orig_words == Len(split(original))
      corr_words == Len(split(corrected))
  IN 2 * corr_words < orig_words \/ corr_words > orig_words * 2

\* _score_correction returning score in place of min(1.0, score)
_score_correction_uncapped(original, corrected) ==
  IF strip(corrected) = "" THEN 0
  ELSE IF too_different(original, corrected) THEN 30
  ELSE score_sum(original, corrected)

\* _score_correction, the score in hundredths
_score_correction(original, corrected) ==
  IF strip(corrected) = "" THEN 0
  ELSE IF too_different(original, corrected) THEN 30
  ELSE LET score == score_sum(original, corrected)
       IN IF score > 100 THEN 100 ELSE score

(***************************************************************************)
(* ParaphraseModel._paraphrase_with_transformers: the filter of the        *)
(* decoded outputs                                                         *)
(***************************************************************************)
prompt_prefixes ==
  << "paraphrase:", "rephrase:", "rewrite:",
     "paraphrase this sentence keeping the same meaning:",
     "rewrite this sentence with different words but same meaning:",
     "express the exact same idea using different words:" >>

\* "Remove any remaining prompt prefixes"
RECURSIVE strip_prompt_prefixes(_, _)
strip_prompt_prefixes(prefixes, result) ==
  IF prefixes = <<>> THEN result
  ELSE strip_prompt_prefixes(Tail(prefixes),
         IF startswith(lower(result), Head(prefixes))
         THEN strip(From(result, Len(Head(prefixes)))) ELSE result)

\* set(s.lower().split())
WordSet(s) == LET words == split(lower(s)) IN {words[i] : i \in 1..Len(words)}

\* 0.2 <= word_overlap <= 0.8 and 0.5 <= length_ratio <= 2.0 and at least 3 words
is_meaningful(result, text) ==
  LET original_words == WordSet(text)
      shared == Cardinality(original_words \cap WordSet(result))
      result_len == Len(split(result))
      text_len == Len(split(text))
  IN /\ 10 * shared >= 2 * Cardinality(original_words)
     /\ 10 * shared <= 8 * Cardinality(original_words)
     /\ 2 * result_len >= text_len
     /\ result_len <= 2 * text_len
     /\ result_len >= 3

\* The loop "for result in all_results"
RECURSIVE _clean_results(_, _, _)
_clean_results(all_results, text, cleaned_results) ==
  IF all_results = <<>> THEN cleaned_results
  ELSE LET raw == Head(all_results)
           result == strip_prompt_prefixes(prompt_prefixes, raw)
           keep == /\ raw # ""
                   /\ strip(lower(raw)) # strip(lower(text))
                   /\ (WordSet(text) # {} => is_meaningful(result, text))
                   /\ ~InList(result, cleaned_results)
       IN IF keep
          THEN _clean_results(Tail(all_results), text, Append(cleaned_results, strip(result)))
          ELSE _clean_results(Tail(all_results), text, cleaned_results)

\* The number of prompts tried for a model
prompts_for(model_name) == IF contains(model_name, "flan-t5") THEN 3 ELSE 2

\* __init__: models_to_try
models_to_try ==
  <<"google/flan-t5-base", "Vamsi/T5_Paraphrase_Paws", "ramsrigouthamg/t5_paraphraser">>

\* A short list of outputs handed over to the rule-based generation
_transformers_return_enough_only(cleaned_results, text, style, num_alternatives) ==
  IF Len(cleaned_results) >= num_alternatives
  THEN Take(cleaned_results, num_alternatives)
  ELSE _fallback_paraphrase(text, style, num_alternatives)

\* "If we got meaningful results, return them", else "use enhanced fallback"
_transformers_return(cleaned_results, text, style, num_alternatives) ==
  IF cleaned_results # <<>>
  THEN Take(cleaned_results, num_alternatives)
  ELSE _fallback_paraphrase(text, style, num_alternatives)

(***************************************************************************)
(* simple_paraphraser.py: SimpleParaphraser.  The object self is the       *)
(* record of its two tables; a method that could write to self gives back  *)
(* the self it leaves behind next to its value.  The patterns are          *)
(* case-sensitive; a pattern is a sequence of literals <<"lit", w>> and    *)
(* groups <<"w+">>, a replacement a sequence of literals and group         *)
(* references <<"g", n>>.  A value that is threaded through a loop is      *)
(* bound once, as the member of a one-element set.                         *)
(***************************************************************************)
\* __init__: self.synonyms
SimpleParaphraser_synonyms ==
  "quick" :> <<"fast", "rapid", "swift", "speedy">> @@
  "brown" :> <<"tan", "chestnut", "auburn", "russet">> @@
  "jumps" :> <<"leaps", "bounds", "springs", "hops">> @@
  "lazy" :> <<"idle", "sluggish", "inactive", "lethargic">> @@
  "dog" :> <<"canine", "hound", "pup", "animal">> @@
  "nice" :> <<"pleasant", "lovely", "beautiful", "wonderful">> @@
  "good" :> <<"excellent", "great", "fine", "wonderful">> @@
  "big" :> <<"large", "huge", "enormous", "massive">> @@
  "small" :> <<"tiny", "little", "petite", "compact">> @@
  "happy" :> <<"joyful", "cheerful", "delighted", "pleased">> @@
  "sad" :> <<"unhappy", "sorrowful", "melancholy", "dejected">> @@
  "amazing" :> <<"incredible", "fantastic", "wonderful", "remarkable">> @@
  "beautiful" :> <<"gorgeous", "stunning", "lovely", "attractive">> @@
  "important" :> <<"crucial", "vital", "significant", "essential">> @@
  "create" :> <<"build", "make", "construct", "develop">> @@
  "help" :> <<"assist", "support", "aid", "guide">> @@
  "think" :> <<"believe", "consider", "suppose", "imagine">> @@
  "need" :> <<"require", "must have", "want", "demand">> @@
  "schedule" :> <<"arrange", "plan", "organize", "set up">> @@
  "discuss" :> <<"talk about", "examine", "review", "consider">> @@
  "project" :> <<"task", "assignment", "work", "endeavor">> @@
  "meeting" :> <<"gathering", "conference", "session", "discussion">> @@
  "weather" :> <<"climate", "conditions", "atmosphere", "environment">> @@
  "today" :> <<"this day", "currently", "at present", "right now">> @@
  "movie" :> <<"film", "picture", "cinema", "flick">> @@
  "absolutely" :> <<"completely", "totally", "entirely", "fully">> @@
  "people" :> <<"individuals", "persons", "folks", "everyone">> @@
  "scared" :> <<"frightened", "afraid", "terrified", "alarmed">>

Group(n) == <<"g", n>>
W == <<"w+">>
\* __init__: self.restructure_patterns
SimpleParaphraser_restructure_patterns ==
  << [pattern |-> <<W, Lit(" jumps over "), W>>,
      replacement |-> <<Group(2), Lit(" is jumped over by "), Group(1)>>],
     [pattern |-> <<W, Lit(" was "), W>>,
      replacement |-> <<Group(1), Lit(" happened to be "), Group(2)>>],
     [pattern |-> <<Lit("We need to "), W>>,
      replacement |-> <<Lit("It is necessary to "), Group(1)>>],
     [pattern |-> <<W, Lit(" is "), W, Lit(" today")>>,
      replacement |-> <<Lit("Today, "), Group(1), Lit(" appears to be "), Group(2)>>] >>

\* SimpleParaphraser(): the freshly initialized object
SimpleParaphraser_init ==
  [synonyms |-> SimpleParaphraser_synonyms,
   restructure_patterns |-> SimpleParaphraser_restructure_patterns]

\* re.match of pat at offset i of s: the offset where the match ends (-1 for
\* none) and the spans of its groups.  Each (\w+) is followed by a space or
\* ends the pattern, so it takes the whole run of word characters.
RECURSIVE match_groups(_, _, _, _)
match_groups(s, i, pat, groups) ==
  IF pat = <<>> THEN [end |-> i, groups |-> groups]
  ELSE IF Head(pat)[1] = "w+"
  THEN LET j == WordFrom(s, i) IN
       IF i < Len(s) /\ j > i
       THEN match_groups(s, j, Tail(pat), Append(groups, <<i, j>>))
       ELSE [end |-> -1, groups |-> <<>>]
  ELSE LET w == Head(pat)[2] IN
       IF i + Len(w) <= Len(s) /\ SubSeq(s, i + 1, i + Len(w)) = w
       THEN match_groups(s, i + Len(w), Tail(pat), groups)
       ELSE [end |-> -1, groups |-> <<>>]

\* The offsets from i on where pat matches
group_starts(s, i, pat) == {j \in i..(Len(s) - 1) : match_groups(s, j, pat, <<>>).end > j}

\* The replacement of a match
RECURSIVE expand_groups(_, _, _)
expand_groups(s, groups, replacement) ==
  IF replacement = <<>> THEN ""
  ELSE (IF Head(replacement)[1] = "g"
        THEN SubSeq(s, groups[Head(replacement)[2]][1] + 1, groups[Head(replacement)[2]][2])
        ELSE Head(replacement)[2])
       \o expand_groups(s, groups, Tail(replacement))

\* re.sub(pattern, replacement, s): the matches from left to right, none overlapping
RECURSIVE sub_groups_from(_, _, _, _)
sub_groups_from(s, i, pat, replacement) ==
  LET starts == group_starts(s, i, pat) IN
  IF starts = {} THEN SubSeq(s, i + 1, Len(s))
  ELSE LET j == MinOf(starts)
           m == match_groups(s, j, pat, <<>>)
       IN SubSeq(s, i + 1, j) \o expand_groups(s, m.groups, replacement)
          \o sub_groups_from(s, m.end, pat, replacement)
re_sub_groups(pat, replacement, s) == sub_groups_from(s, 0, pat, replacement)

\* re.sub(r'[^\w]', '', word) and re.sub(r'[\w]', '', word): the characters
\* of word that are (keep_word) or are not word characters
RECURSIVE select_chars(_, _)
select_chars(word, keep_word) ==
  IF word = "" THEN ""
  ELSE (IF IsWordChar(Head(word)) = keep_word THEN Head(word) ELSE "")
       \o select_chars(Tail(word), keep_word)
clean_word(word) == select_chars(lower(word), TRUE)
punctuation(word) == select_chars(word, FALSE)

\* _apply_synonyms: "Choose synonym based on style and variation" (0-based)
synonym_index(style, variation, len) ==
  IF style = "creative" THEN (variation * 2) % len
  ELSE IF style = "formal" THEN (IF variation < len - 1 THEN variation ELSE len - 1)
  ELSE variation % len

\* A lookup that uses the synonym up: the list is rotated past it
_synonym_for_consumed(self, word, style, variation) ==
  LET clean == clean_word(word) IN
  IF clean \in DOMAIN self.synonyms
  THEN LET synonyms == self.synonyms[clean]
           index == synonym_index(style, variation, Len(synonyms))
       IN [self |-> [self EXCEPT !.synonyms[clean] = Tail(synonyms) \o <<Head(synonyms)>>],
           word |-> synonyms[index + 1] \o punctuation(word)]
  ELSE [self |-> self, word |-> word]

\* _apply_synonyms, the body of its loop: the word that is appended and
\* the self the lookup leaves (the tables are only read)
_synonym_for(self, word, style, variation) ==
  LET clean == clean_word(word) IN
  IF clean \in DOMAIN self.synonyms
  THEN LET synonyms == self.synonyms[clean]
           index == synonym_index(style, variation, Len(synonyms))
       IN [self |-> self, word |-> synonyms[index + 1] \o punctuation(word)]
  ELSE [self |-> self, word |-> word]

\* _apply_synonyms, its loop over the words
RECURSIVE _apply_synonyms_loop(_, _, _, _, _)
_apply_synonyms_loop(self, words, style, variation, result_words) ==
  IF words = <<>> THEN [self |-> self, result_words |-> result_words]
  ELSE CHOOSE out \in
         {_apply_synonyms_loop(r.self, Tail(words), style, variation,
                               Append(result_words, r.word)) :
            r \in {_synonym_for(self, Head(words), style, variation)}} : TRUE

_apply_synonyms(self, text, style, variation) ==
  CHOOSE out \in
    {[self |-> r.self, text |-> join(" ", r.result_words)] :
       r \in {_apply_synonyms_loop(self, split(text), style, variation, <<>>)}} : TRUE

\* _restructure_sentence: "Only apply one restructuring"
RECURSIVE _restructure_with(_, _)
_restructure_with(patterns, text) ==
  IF patterns = <<>> THEN text
  ELSE IF group_starts(text, 0, Head(patterns).pattern) # {}
  THEN re_sub_groups(Head(patterns).pattern, Head(patterns).replacement, text)
  ELSE _restructure_with(Tail(patterns), text)
_restructure_sentence(self, text, style) == _restructure_with(self.restructure_patterns, text)

\* re.sub(r'\b(a1|a2|...)\b', prefix + r'\1', s, count=1)
prefix_first_word(alts, prefix, s) ==
  LET at(j) == {k \in 1..Len(alts) :
                  /\ j + Len(alts[k]) <= Len(s)
                  /\ SubSeq(s, j + 1, j + Len(alts[k])) = alts[k]
                  /\ Boundary(s, j + Len(alts[k]))}
      starts == {j \in 0..(Len(s) - 1) : Boundary(s, j) /\ at(j) # {}}
  IN IF starts = {} THEN s
     ELSE LET j == MinOf(starts) IN SubSeq(s, 1, j) \o prefix \o SubSeq(s, j + 1, Len(s))

\* text.replace('. ', connector, 1) if '. ' in text
add_connector(text, connector) ==
  IF contains(text, ". ") THEN replace_count(text, ". ", connector, 1) ELSE text

_apply_style_transformations(text, style) ==
  IF style = "formal"
  THEN add_connector(
         replace(replace(replace(replace(text, "can't", "cannot"), "won't", "will not"),
                         "don't", "do not"), "isn't", "is not"),
         ". Furthermore, ")
  ELSE IF style = "casual"
  THEN add_connector(
         replace(replace(replace(replace(text, "cannot", "can't"), "will not", "won't"),
                         "do not", "don't"), "is not", "isn't"),
         ". Also, ")
  ELSE IF style = "creative"
  THEN prefix_first_word(<<"jumps", "leaps", "bounds">>, "gracefully ",
         prefix_first_word(<<"fox", "dog", "animal">>, "magnificent ", text))
  ELSE text

\* A letter that follows ". " has its case swapped
after_period_swapcase(text, i) ==
  IF i >= 3 /\ SubSeq(text, i - 2, i - 1) = ". "
  THEN (IF CharAt(text, i) \in LowerSet THEN UpperChar(CharAt(text, i))
        ELSE LowerChar(CharAt(text, i)))
  ELSE CharAt(text, i)

\* The character at index i after re.sub(r'(\. )([a-z])', ...): a lower-case
\* letter that follows ". " is upper-cased
after_period(text, i) ==
  IF i >= 3 /\ SubSeq(text, i - 2, i - 1) = ". " /\ CharAt(text, i) \in LowerSet
  THEN UpperChar(CharAt(text, i)) ELSE CharAt(text, i)
\* The characters a..b of the text after that re.sub (one half after the other)
RECURSIVE capitalize_after_periods(_, _, _)
capitalize_after_periods(text, a, b) ==
  IF a > b THEN ""
  ELSE IF a = b THEN after_period(text, a)
  ELSE LET h == (a + b) \div 2 IN
       capitalize_after_periods(text, a, h) \o capitalize_after_periods(text, h + 1, b)

\* "Capitalize first letter", then "Capitalize after periods"
_fix_capitalization(text) ==
  LET first == IF text # "" THEN UpperChar(Head(text)) \o Tail(text) ELSE text IN
  capitalize_after_periods(first, 1, Len(first))

\* _paraphrase_text after its synonym replacements
_paraphrase_rest(synonymized, style) ==
  LET restructured == IF style \in {"creative", "formal"}
                      THEN _restructure_sentence(synonymized.self, synonymized.text, style)
                      ELSE synonymized.text
  IN [self |-> synonymized.self,
      text |-> _fix_capitalization(_apply_style_transformations(restructured, style))]
_paraphrase_text(self, text, style, variation) ==
  CHOOSE out \in
    {_paraphrase_rest(synonymized, style) :
       synonymized \in {_apply_synonyms(self, lower(text), style, variation)}} : TRUE

\* paraphrase, its loop "Generate alternatives" from i on
RECURSIVE _alternatives(_, _, _, _, _, _)
_alternatives(self, text, style, num_alternatives, i, results) ==
  IF i >= num_alternatives - 1 THEN [self |-> self, results |-> results]
  ELSE CHOOSE out \in
         {_alternatives(alt.self, text, style, num_alternatives, i + 1,
                        IF alt.text # results[1] /\ ~InList(alt.text, results)
                        THEN Append(results, alt.text) ELSE results) :
            alt \in {_paraphrase_text(self, text, style, i + 1)}} : TRUE

\* SimpleParaphraser.paraphrase: the list it returns and the self it leaves
SimpleParaphraser_paraphrase(self, text, style, num_alternatives) ==
  CHOOSE out \in
    {_alternatives(primary.self, text, style, num_alternatives, 0, <<primary.text>>) :
       primary \in {_paraphrase_text(self, text, style, 0)}} : TRUE

(***************************************************************************)
(* The state of one request                                                *)
(***************************************************************************)
VARIABLES
  pc,                 \* the position of the request in its pipeline
  text,               \* the request: the input text,
  style,              \*   the style string,
  num_alternatives,   \*   and the requested count
  results,            \* _fallback_paraphrase: the candidate pool
  unique_results,     \* _fallback_paraphrase: the deduplicated pool
  guaranteed_results, \* _fallback_paraphrase: what the fallback generator gave
  returned,           \* the list handed back to the caller
  model_name,         \* ParaphraseModel: the name of the loaded model
  prompt,             \* the index of the prompt the model is asked next
  all_results,        \* _paraphrase_with_transformers: the decoded outputs
  cleaned_results,    \* _paraphrase_with_transformers: the outputs that pass the filter
  exception,          \* _paraphrase_with_transformers: the exception caught ("" for none)
  model,              \* GrammarCorrector: whether a model is loaded
  best_result,        \* _ai_correct: the best candidate so far ("" for None)
  best_score,         \* _ai_correct: its score, in hundredths
  options,            \* _ai_correct: the options evaluated so far, each <<cleaned, score>>
  corrected,          \* _rule_based_correct: the text so far
  rule_corrections,   \* _rule_based_correct: its corrections so far
  caller,             \* who called _rule_based_correct
  corrected_text,     \* correct_grammar: the text it got from the callee
  corrections,        \* correct_grammar: the corrections it collects
  confidence,         \* correct_grammar: the confidence, in hundredths
  result,             \* correct_grammar: the dictionary it returns
  argv,               \* main: sys.argv, the script name first
  exit_status,        \* main: the exit status of the process (-1 while it runs)
  stdout,             \* main: the lines printed to standard output
  stderr,             \* main: the lines printed to standard error
  synonyms,           \* SimpleParaphraser: self.synonyms
  restructure_patterns, \* SimpleParaphraser: self.restructure_patterns
  served              \* the number of requests the engines have been given

request_vars == <<text, style, num_alternatives>>
fallback_vars == <<results, unique_results, guaranteed_results>>
transformers_vars == <<model_name, all_results, cleaned_results, exception>>
ai_vars == <<best_result, best_score, options>>
rule_vars == <<corrected, rule_corrections, caller>>
grammar_vars == <<model, corrected_text, corrections, confidence, result>>
process_vars == <<argv, exit_status, stdout, stderr>>
session_vars == <<synonyms, restructure_patterns, served>>

vars == <<pc, request_vars, returned, fallback_vars, prompt, transformers_vars,
          ai_vars, rule_vars, grammar_vars, process_vars, session_vars>>

(***************************************************************************)
(* The requests of the model                                               *)
(***************************************************************************)
\* The largest requested count
MaxK == 4

TextStarts == {"", "I ", "The cat ", "When I was young, I "}
TextMids ==
  { "hello", "go", "nevermore",
    "is good and it's important",
    "used to play every day",
    "can't stay because you're late",
    "will not  be here now",
    "sleep. We always eat" }
TextEnds == {"", ".", "?", "!"}

Texts == {s \o m \o e : s \in TextStarts, m \in TextMids, e \in TextEnds}
Styles == {"formal", "casual", "creative", "default", "simple", "academic", "xyz"}

\* The variables of the paths a request does not take
NoFallback == results = <<>> /\ unique_results = <<>> /\ guaranteed_results = <<>>
NoTransformers ==
  /\ model_name = "" /\ prompt = 0 /\ all_results = <<>> /\ cleaned_results = <<>>
  /\ exception = ""
NoGrammar ==
  /\ model = FALSE /\ best_result = "" /\ best_score = 0 /\ options = {}
  /\ corrected = "" /\ rule_corrections = <<>> /\ caller = ""
  /\ corrected_text = "" /\ corrections = <<>> /\ confidence = 0 /\ result = <<>>
\* No process around the request: the method is called directly
NoProcess == argv = <<>> /\ exit_status = -1 /\ stdout = <<>> /\ stderr = <<>>
\* No engine that outlives the request
NoSession == synonyms = <<>> /\ restructure_patterns = <<>> /\ served = 0
others ==
  <<prompt, transformers_vars, ai_vars, rule_vars, grammar_vars, process_vars, session_vars>>

(***************************************************************************)
(* One request to ParaphraseModel.paraphrase                               *)
(***************************************************************************)
Init ==
  /\ text \in Texts
  /\ style \in Styles
  /\ num_alternatives \in 1..MaxK
  /\ pc = "paraphrase"
  /\ results = <<>>
  /\ unique_results = <<>>
  /\ guaranteed_results = <<>>
  /\ returned = <<>>
  /\ NoTransformers
  /\ NoGrammar
  /\ NoProcess
  /\ NoSession

\* paraphrase calls _fallback_paraphrase, which starts with an empty pool
Paraphrase ==
  /\ pc = "paraphrase"
  /\ results' = <<>>
  /\ pc' = "syntactic"
  /\ UNCHANGED <<text, style, num_alternatives, unique_results, guaranteed_results, returned>>
  /\ UNCHANGED others

\* Method 1
Syntactic ==
  /\ pc = "syntactic"
  /\ results' = results \o _apply_syntactic_transformations(text, style)
  /\ pc' = "semantic"
  /\ UNCHANGED <<text, style, num_alternatives, unique_results, guaranteed_results, returned>>
  /\ UNCHANGED others

\* Method 2
Semantic ==
  /\ pc = "semantic"
  /\ results' = results \o _apply_semantic_substitutions(text, style)
  /\ pc' = "discourse"
  /\ UNCHANGED <<text, style, num_alternatives, unique_results, guaranteed_results, returned>>
  /\ UNCHANGED others

\* Method 3
Discourse ==
  /\ pc = "discourse"
  /\ results' = results \o _apply_discourse_restructuring(text, style)
  /\ pc' = "dedup"
  /\ UNCHANGED <<text, style, num_alternatives, unique_results, guaranteed_results, returned>>
  /\ UNCHANGED others

\* Remove duplicates and original text
RemoveDuplicates ==
  /\ pc = "dedup"
  /\ unique_results' = _remove_duplicates(results, text, <<>>)
  /\ pc' = "ensure"
  /\ UNCHANGED <<text, style, num_alternatives, results, guaranteed_results, returned>>
  /\ UNCHANGED others

\* "If we have few results, add guaranteed transformations"
EnsureMinimum ==
  /\ pc = "ensure"
  /\ Len(unique_results) < num_alternatives
  /\ guaranteed_results' = _guaranteed_for(unique_results, text, style, num_alternatives)
  /\ unique_results' = _add_guaranteed(guaranteed_results', text, unique_results)
  /\ pc' = "return"
  /\ UNCHANGED <<text, style, num_alternatives, results, returned>>
  /\ UNCHANGED others

\* The pool already holds num_alternatives candidates
EnoughResults ==
  /\ pc = "ensure"
  /\ ~(Len(unique_results) < num_alternatives)
  /\ pc' = "return"
  /\ UNCHANGED <<text, style, num_alternatives, results, unique_results,
                 guaranteed_results, returned>>
  /\ UNCHANGED others

Return ==
  /\ pc = "return"
  /\ returned' = _return_value(unique_results, text, num_alternatives)
  /\ pc' = "done"
  /\ UNCHANGED <<text, style, num_alternatives, results, unique_results, guaranteed_results>>
  /\ UNCHANGED others

Next ==
  \/ Paraphrase
  \/ Syntactic
  \/ Semantic
  \/ Discourse
  \/ RemoveDuplicates
  \/ EnsureMinimum
  \/ EnoughResults
  \/ Return

Spec == Init /\ [][Next]_vars

(***************************************************************************)
(* One request to GrammarCorrector.correct_grammar                         *)
(***************************************************************************)
GrammarStarts == {"", "teh cat ", "i ", "SHow me THe ", "1abc ", "We "}
GrammarMids ==
  { "is happy", "cant dont go nowhere", "youre face", "was there car",
    "many cats is here", "have walked yesterday" }
GrammarEnds == {"", ".", " ."}
GrammarTexts ==
  {s \o m \o e : s \in GrammarStarts, m \in GrammarMids, e \in GrammarEnds} \cup {" "}

\* The texts sent to a corrector that has a model
ModelTexts ==
  {s \o m \o e : s \in {"teh cat ", "We ", "1abc "},
                 m \in {"is happy", "youre face", "was there car"},
                 e \in {"", "."}} \cup {" "}

\* generate: num_return_sequences
num_return_sequences == 3
\* What the model may decode for a prompt: nothing, the text itself, the
\* prompt itself, a text of the wrong length, a rewrite behind a response
\* pattern
Replies(t, full_prompt) == <<"", t, full_prompt, "ok", "Result: the cat is happy">>
\* The outputs of one call of generate, each the index of a reply
Outputs(replies) == [1..num_return_sequences -> 1..Len(replies)]

InitGrammar ==
  /\ \/ model = FALSE /\ text \in GrammarTexts
     \/ model = TRUE /\ text \in ModelTexts
  /\ style = "basic"
  /\ num_alternatives = 0
  /\ pc = "correct_grammar"
  /\ returned = <<>>
  /\ NoFallback
  /\ NoTransformers
  /\ best_result = "" /\ best_score = 0 /\ options = {}
  /\ corrected = "" /\ rule_corrections = <<>> /\ caller = ""
  /\ corrected_text = "" /\ corrections = <<>> /\ confidence = 80 /\ result = <<>>
  /\ NoProcess
  /\ NoSession

unused ==
  <<request_vars, returned, fallback_vars, transformers_vars, process_vars, session_vars>>

\* _rule_based_correct(text) is called: corrected = text, corrections = []
CallRuleBased(from) ==
  /\ corrected' = text
  /\ rule_corrections' = <<>>
  /\ caller' = from
  /\ pc' = "capitalization"

\* "Always try AI first if available, then fallback to rule-based"
CorrectWithModel ==
  /\ pc = "correct_grammar"
  /\ model
  /\ pc' = "_ai_correct"
  /\ prompt' = 1
  /\ best_result' = ""
  /\ best_score' = 0
  /\ options' = {}
  /\ UNCHANGED <<unused, rule_vars, grammar_vars>>

CorrectWithoutModel ==
  /\ pc = "correct_grammar"
  /\ ~model
  /\ CallRuleBased("correct_grammar")
  /\ UNCHANGED <<unused, prompt, ai_vars, grammar_vars>>

\* The loop without "if best_score > 0.7: break"
NextPrompt_no_break(good) ==
  IF prompt = Len(prompts)
  THEN pc' = "use_best" /\ UNCHANGED prompt
  ELSE pc' = "_ai_correct" /\ prompt' = prompt + 1

\* for prompt in prompts: the next prompt, or the end of the loop
NextPrompt(good) ==
  IF good \/ prompt = Len(prompts)
  THEN pc' = "use_best" /\ UNCHANGED prompt
  ELSE pc' = "_ai_correct" /\ prompt' = prompt + 1

\* Each reply cleaned, then post-processed and scored: <<cleaned, score>>,
\* or <<"", 0>> for a reply that is empty once cleaned ("if cleaned:")
RECURSIVE evaluate(_, _, _)
evaluate(replies, full_prompt, original) ==
  IF replies = <<>> THEN <<>>
  ELSE LET cleaned == _clean_ai_response(Head(replies), full_prompt)
           processed == _post_process_ai_result(cleaned)
       IN <<IF cleaned # "" THEN <<processed, _score_correction(original, processed)>>
            ELSE <<"", 0>>>>
          \o evaluate(Tail(replies), full_prompt, original)

\* "for output in outputs": the options that are scored, each <<cleaned, score>>
Evaluated(candidates, outputs) ==
  {candidates[outputs[i]] : i \in DOMAIN outputs} \ {<<"", 0>>}

\* The loop taking the first candidate, whatever its score
best_of_first(outputs, candidates, best) ==
  IF outputs = <<>> THEN best
  ELSE LET candidate == candidates[Head(outputs)] IN
       IF candidate[1] # "" THEN candidate ELSE best

\* "Evaluate all generated options": the best of the outputs and of best
RECURSIVE best_of(_, _, _)
best_of(outputs, candidates, best) ==
  IF outputs = <<>> THEN best
  ELSE LET candidate == candidates[Head(outputs)] IN
       IF candidate[1] # "" /\ candidate[2] > best[2]
       THEN best_of(Tail(outputs), candidates, candidate)
       ELSE best_of(Tail(outputs), candidates, best)

\* The model answers the prompt
Generate ==
  /\ pc = "_ai_correct"
  /\ LET full_prompt == prompts[prompt] \o text
         replies == Replies(text, full_prompt)
     IN \E candidates \in {evaluate(replies, full_prompt, text)}, outputs \in Outputs(replies) :
          LET best == best_of(outputs, candidates, <<best_result, best_score>>)
          IN /\ best_result' = best[1]
             /\ best_score' = best[2]
             /\ options' = options \cup Evaluated(candidates, outputs)
             /\ NextPrompt(best[2] > 70)
  /\ UNCHANGED <<unused, rule_vars, grammar_vars>>

\* The tokenizer or the model raises: "Failed with prompt", continue
GenerateRaises ==
  /\ pc = "_ai_correct"
  /\ NextPrompt(FALSE)
  /\ UNCHANGED <<unused, ai_vars, rule_vars, grammar_vars>>

\* "Use the best result if found": _ai_correct returns it with one entry
UseBest ==
  /\ pc = "use_best"
  /\ best_result # "" /\ strip(best_result) # strip(text)
  /\ corrected_text' = best_result
  /\ corrections' = corrections \o
       <<Entry(text, best_result, "AI Grammar Correction",
               IF best_score > 95 THEN 95 ELSE best_score)>>
  /\ pc' = "ai_returned"
  /\ UNCHANGED <<unused, prompt, ai_vars, rule_vars, model, confidence, result>>

\* "Fallback to rule-based": return self._rule_based_correct(text)
AiFallback ==
  /\ pc = "use_best"
  /\ ~(best_result # "" /\ strip(best_result) # strip(text))
  /\ CallRuleBased("_ai_correct")
  /\ UNCHANGED <<unused, prompt, ai_vars, grammar_vars>>

\* One block of _rule_based_correct: after is the pair it leaves
RuleBlock(block, next, after) ==
  /\ pc = block
  /\ corrected' = after[1]
  /\ rule_corrections' = after[2]
  /\ pc' = next
  /\ UNCHANGED <<unused, prompt, ai_vars, caller, grammar_vars>>

\* The pair the blocks work on
current == <<corrected, rule_corrections>>

Capitalization ==
  RuleBlock("capitalization", "sentence_capitalization", fix_capitalization(current))
SentenceCapitalization ==
  RuleBlock("sentence_capitalization", "word_fixes", fix_sentence_capitalization(current))
WordFixes == RuleBlock("word_fixes", "contraction_fixes", fix_word_confusions(current))
ContractionFixes == RuleBlock("contraction_fixes", "agreement_fixes", fix_contractions(current))
AgreementFixes == RuleBlock("agreement_fixes", "tense_fixes", fix_agreement(current))
TenseFixes == RuleBlock("tense_fixes", "double_negatives", fix_tense(current))
\* The double-negative check made on the input text, as it is before the
\* contraction repair
DoubleNegatives_on_input ==
  RuleBlock("double_negatives", "spacing",
            IF has_double_negative(text) THEN fix_double_negatives(current) ELSE current)
DoubleNegatives == RuleBlock("double_negatives", "spacing", fix_double_negatives(current))
Spacing == RuleBlock("spacing", "sentence_ending", fix_spacing(current))
SentenceEnding == RuleBlock("sentence_ending", "rule_return", fix_sentence_ending(current))

\* return corrected, corrections: to _ai_correct, which returns it as its own
ReturnToAi ==
  /\ pc = "rule_return"
  /\ caller = "_ai_correct"
  /\ corrected_text' = corrected
  /\ corrections' = corrections \o rule_corrections
  /\ pc' = "ai_returned"
  /\ UNCHANGED <<unused, prompt, ai_vars, rule_vars, model, confidence, result>>

\* "If AI correction is good enough, return it"
ReturnAiCorrection ==
  /\ pc = "ai_returned"
  /\ corrected_text # "" /\ strip(corrected_text) # strip(text)
  /\ confidence' = 90
  /\ result' = [correctedText |-> corrected_text, corrections |-> corrections,
                confidence |-> confidence']
  /\ pc' = "corrected"
  /\ UNCHANGED <<unused, prompt, ai_vars, rule_vars, model, corrected_text, corrections>>

\* "Fallback to rule-based correction if AI fails"
RuleBasedAfterAi ==
  /\ pc = "ai_returned"
  /\ ~(corrected_text # "" /\ strip(corrected_text) # strip(text))
  /\ confidence' = 90
  /\ CallRuleBased("correct_grammar")
  /\ UNCHANGED <<unused, prompt, ai_vars, model, corrected_text, corrections, result>>

\* return corrected, corrections: to correct_grammar, which returns the result
ReturnRuleBased ==
  /\ pc = "rule_return"
  /\ caller = "correct_grammar"
  /\ corrected_text' = corrected
  /\ corrections' = corrections \o rule_corrections
  /\ confidence' = IF ~model THEN 70 ELSE 80
  /\ result' = [correctedText |-> corrected_text', corrections |-> corrections',
                confidence |-> confidence']
  /\ pc' = "corrected"
  /\ UNCHANGED <<unused, prompt, ai_vars, rule_vars, model>>

NextGrammar ==
  \/ CorrectWithModel
  \/ CorrectWithoutModel
  \/ Generate
  \/ GenerateRaises
  \/ UseBest
  \/ AiFallback
  \/ Capitalization
  \/ SentenceCapitalization
  \/ WordFixes
  \/ ContractionFixes
  \/ AgreementFixes
  \/ TenseFixes
  \/ DoubleNegatives
  \/ Spacing
  \/ SentenceEnding
  \/ ReturnToAi
  \/ ReturnAiCorrection
  \/ RuleBasedAfterAi
  \/ ReturnRuleBased

SpecGrammar == InitGrammar /\ [][NextGrammar]_vars

\* self.model.generate is called with no timeout around it: a call that
\* never returns keeps the request inside it, and nothing takes it out
GenerateNeverReturns ==
  /\ pc = "_ai_correct"
  /\ pc' = "generate"
  /\ UNCHANGED <<unused, prompt, ai_vars, rule_vars, grammar_vars>>

NextHang == NextGrammar \/ GenerateNeverReturns

\* The positions of a request to correct_grammar
GrammarPositions ==
  {"correct_grammar", "_ai_correct", "generate", "use_best", "capitalization",
   "sentence_capitalization", "word_fixes", "contraction_fixes", "agreement_fixes",
   "tense_fixes", "double_negatives", "spacing", "sentence_ending", "rule_return",
   "ai_returned", "corrected"}
\* The one thread of the request runs: a request that has not returned and
\* is not inside a call that does not return moves on to another position
Advance ==
  /\ pc \notin {"generate", "corrected"}
  /\ pc' \in GrammarPositions \ {pc}
SpecHang == InitGrammar /\ [][NextHang]_vars /\ WF_pc(Advance)

(***************************************************************************)
(* Rule-based correction of texts with a negative contraction that has     *)
(* lost its apostrophe and a negative word                                 *)
(***************************************************************************)
NegativeTexts ==
  {p \o c \o m \o w \o e :
     p \in {"", "i "},
     c \in {"cant", "Dont", "wont", "couldnt", "WOULDNT", "shouldnt", "can't", "didnt"},
     m \in {" go ", " see it  "},
     w \in {"nowhere", "nothing", "Nobody", "home"},
     e \in {"", " ."}}
  \cup {"go nowhere cant", "nothing dont help", "cantaloupe is nowhere"}

InitNegatives ==
  /\ model = FALSE
  /\ text \in NegativeTexts
  /\ style = "basic"
  /\ num_alternatives = 0
  /\ pc = "correct_grammar"
  /\ returned = <<>>
  /\ NoFallback
  /\ NoTransformers
  /\ best_result = "" /\ best_score = 0 /\ options = {}
  /\ corrected = "" /\ rule_corrections = <<>> /\ caller = ""
  /\ corrected_text = "" /\ corrections = <<>> /\ confidence = 80 /\ result = <<>>
  /\ NoProcess
  /\ NoSession

\* correct_grammar of a corrector that has no model
NextRuleBased ==
  \/ CorrectWithoutModel
  \/ Capitalization
  \/ SentenceCapitalization
  \/ WordFixes
  \/ ContractionFixes
  \/ AgreementFixes
  \/ TenseFixes
  \/ DoubleNegatives
  \/ Spacing
  \/ SentenceEnding
  \/ ReturnRuleBased

SpecNegatives == InitNegatives /\ [][NextRuleBased]_vars

(***************************************************************************)
(* One request to ParaphraseModel._paraphrase_with_transformers            *)
(***************************************************************************)
TransformersTexts == {"Hello there.", "The cat is happy today"}
TransformersStyles == {"default", "formal"}

\* Rewrites of a text that pass the filter
Rewrites(t) ==
  IF t = "Hello there."
  THEN <<"Hello over there", "Well hello my friend", "There. you are">>
  ELSE <<"The cat feels glad today", "A cat is cheerful now", "Today the feline is joyful">>

\* What generate may give for a prompt (num_return_sequences: 2): nothing,
\* the text itself, rewrites of it, one of them behind a prompt prefix
OutputPairs(t) ==
  { <<"", "">>,
    <<t, "">>,
    <<"paraphrase: " \o Rewrites(t)[1], t>>,
    <<Rewrites(t)[1] \o " ", Rewrites(t)[2]>>,
    <<Rewrites(t)[2], Rewrites(t)[3]>> }

InitTransformers ==
  /\ text \in TransformersTexts
  /\ style \in TransformersStyles
  /\ num_alternatives \in 1..MaxK
  /\ model_name \in {models_to_try[i] : i \in 1..Len(models_to_try)}
  /\ pc = "_paraphrase_with_transformers"
  /\ prompt = 1
  /\ all_results = <<>>
  /\ cleaned_results = <<>>
  /\ exception = ""
  /\ returned = <<>>
  /\ NoFallback
  /\ NoGrammar
  /\ NoProcess
  /\ NoSession

untouched ==
  <<request_vars, fallback_vars, ai_vars, rule_vars, grammar_vars, process_vars, session_vars>>

\* for prompt in prompts: generate, decode, all_results.extend(prompt_results)
GenerateParaphrases ==
  /\ pc = "_paraphrase_with_transformers"
  /\ \E outputs \in OutputPairs(text) : all_results' = all_results \o outputs
  /\ IF prompt = prompts_for(model_name)
     THEN pc' = "clean" /\ UNCHANGED prompt
     ELSE pc' = "_paraphrase_with_transformers" /\ prompt' = prompt + 1
  /\ UNCHANGED <<untouched, returned, model_name, cleaned_results, exception>>

\* torch, the tokenizer or the model raises
GenerateParaphrasesRaises ==
  /\ pc = "_paraphrase_with_transformers"
  /\ exception' = "Exception"
  /\ pc' = "except"
  /\ UNCHANGED <<untouched, returned, prompt, model_name, all_results, cleaned_results>>

\* "Clean up results and filter for meaningful paraphrases"
CleanResults ==
  /\ pc = "clean"
  /\ cleaned_results' = _clean_results(all_results, text, <<>>)
  /\ pc' = "return"
  /\ UNCHANGED <<untouched, returned, prompt, model_name, all_results, exception>>

\* "If we got meaningful results, return them", else the fallback
ReturnResults ==
  /\ pc = "return"
  /\ returned' = _transformers_return(cleaned_results, text, style, num_alternatives)
  /\ pc' = "done"
  /\ UNCHANGED <<untouched, prompt, transformers_vars>>

\* except Exception: "Transformers paraphrasing failed", the fallback
FallbackOnException ==
  /\ pc = "except"
  /\ returned' = _fallback_paraphrase(text, style, num_alternatives)
  /\ pc' = "done"
  /\ UNCHANGED <<untouched, prompt, transformers_vars>>

NextTransformers ==
  \/ GenerateParaphrases
  \/ GenerateParaphrasesRaises
  \/ CleanResults
  \/ ReturnResults
  \/ FallbackOnException

SpecTransformers == InitTransformers /\ [][NextTransformers]_vars

(***************************************************************************)
(* A request to either of the model-backed paths                           *)
(***************************************************************************)
InitAdapter == InitTransformers \/ InitGrammar
NextAdapter == NextTransformers \/ NextGrammar
SpecAdapter == InitAdapter /\ [][NextAdapter]_vars

(***************************************************************************)
(* The two command-line programs                                           *)
(***************************************************************************)
DigitSet == CharsOf(DigitChars)
\* The digits of an integer literal: whitespace stripped, the sign dropped
Unsigned(s) ==
  LET t == strip(s) IN
  IF t # "" /\ CharAt(t, 1) \in {"+", "-"} THEN Tail(t) ELSE t
\* Whether int(s) returns (it raises ValueError otherwise)
is_int_literal(s) ==
  LET d == Unsigned(s) IN d # "" /\ \A i \in 1..Len(d) : CharAt(d, i) \in DigitSet
DigitValue(c) == CHOOSE v \in 0..9 : CharAt(DigitChars, v + 1) = c
RECURSIVE Decimal(_)
Decimal(d) ==
  IF d = "" THEN 0
  ELSE 10 * Decimal(SubSeq(d, 1, Len(d) - 1)) + DigitValue(CharAt(d, Len(d)))
\* int(s) for a literal s
int(s) ==
  IF startswith(strip(s), "-") THEN 0 - Decimal(Unsigned(s)) ELSE Decimal(Unsigned(s))

\* str(n) for n >= 0
RECURSIVE str(_)
str(n) ==
  IF n < 10 THEN CharAt(DigitChars, n + 1)
  ELSE str(n \div 10) \o CharAt(DigitChars, (n % 10) + 1)
\* The repr of a float given in hundredths: 70 -> 0.7, 95 -> 0.95, 100 -> 1.0
\* (the rounding error of a summed score is not shown)
float_repr(h) ==
  str(h \div 100) \o "." \o
  (IF h % 10 = 0 THEN str((h % 100) \div 10) ELSE str((h % 100) \div 10) \o str(h % 10))
\* json.dumps of a str
json_string(s) == "\"" \o replace(replace(s, "\\", "\\\\"), "\"", "\\\"") \o "\""
json_entry(e) ==
  "{\"original\": " \o json_string(e.original) \o
  ", \"corrected\": " \o json_string(e.corrected) \o
  ", \"type\": " \o json_string(e.type) \o
  ", \"confidence\": " \o float_repr(e.confidence) \o "}"
json_list(entries) ==
  "[" \o join(", ", [i \in 1..Len(entries) |-> json_entry(entries[i])]) \o "]"
\* json.dumps of the dictionary correct_grammar returns
json_dumps(r) ==
  "{\"correctedText\": " \o json_string(r.correctedText) \o
  ", \"corrections\": " \o json_list(r.corrections) \o
  ", \"confidence\": " \o float_repr(r.confidence) \o "}"

paraphrase_model == "paraphrase_model.py"
grammar_corrector == "grammar_corrector.py"
no_input_text == "Error: No input text provided"
usage == "Usage: python grammar_corrector.py <text> <level>"
\* str(e) of the ValueError int raises
invalid_literal(s) == "invalid literal for int() with base 10: '" \o s \o "'"

\* main of paraphrase_model.py: the style and the count are optional
parse_arguments_no_count(args) ==
  [ text |-> args[2],
    style |-> IF Len(args) > 2 THEN args[3] ELSE "simple",
    num_alternatives |-> IF Len(args) > 3 THEN int(args[4]) ELSE 0 ]
parse_arguments(args) ==
  [ text |-> args[2],
    style |-> IF Len(args) > 2 THEN args[3] ELSE "simple",
    num_alternatives |-> IF Len(args) > 3 THEN int(args[4]) ELSE 2 ]

MainTexts == {"", "Hello there.", "teh cat"}
MainStyles == {"formal", "basic"}
MainCounts == {"1", " 3", "0", "-1", "abc", ""}
Scripts == {paraphrase_model, grammar_corrector}
MainArgvs ==
  {<<script>> : script \in Scripts}
  \cup {<<script, t>> : script \in Scripts, t \in MainTexts}
  \cup {<<script, t, s>> : script \in Scripts, t \in MainTexts, s \in MainStyles}
  \cup {<<script, t, s, k>> : script \in Scripts, t \in MainTexts, s \in MainStyles,
                              k \in MainCounts}

InitMain ==
  /\ argv \in MainArgvs
  /\ pc = "main"
  /\ exit_status = -1
  /\ stdout = <<>>
  /\ stderr = <<>>
  /\ text = "" /\ style = "" /\ num_alternatives = 0
  /\ returned = <<>>
  /\ NoFallback
  /\ NoTransformers
  /\ NoGrammar
  /\ NoSession

pipeline_vars ==
  <<returned, fallback_vars, prompt, transformers_vars, ai_vars, rule_vars, grammar_vars,
    session_vars>>

\* sys.exit(1)
Exit1 == exit_status' = 1 /\ pc' = "exited"

\* paraphrase_model.py: if len(sys.argv) < 2
NoInputText ==
  /\ pc = "main" /\ argv[1] = paraphrase_model
  /\ Len(argv) < 2
  /\ stderr' = Append(stderr, no_input_text)
  /\ Exit1
  /\ UNCHANGED <<argv, stdout, request_vars, pipeline_vars>>

\* paraphrase_model.py: the arguments parse and model.paraphrase is called
ParseArguments ==
  /\ pc = "main" /\ argv[1] = paraphrase_model
  /\ Len(argv) >= 2
  /\ Len(argv) > 3 => is_int_literal(argv[4])
  /\ \E args \in {parse_arguments(argv)} :
       /\ text' = args.text
       /\ style' = args.style
       /\ num_alternatives' = args.num_alternatives
  /\ pc' = "paraphrase"
  /\ UNCHANGED <<process_vars, pipeline_vars>>

\* paraphrase_model.py: int raises, and except Exception reports and exits
MainExcept ==
  /\ pc = "main" /\ argv[1] = paraphrase_model
  /\ Len(argv) > 3 /\ ~is_int_literal(argv[4])
  /\ text' = argv[2]
  /\ style' = argv[3]
  /\ stderr' = Append(stderr, "Error: " \o invalid_literal(argv[4]))
  /\ Exit1
  /\ UNCHANGED <<argv, stdout, num_alternatives, pipeline_vars>>

\* paraphrase_model.py: for result in results: print(result)
PrintResults ==
  /\ pc = "done" /\ argv[1] = paraphrase_model
  /\ stdout' = stdout \o returned
  /\ exit_status' = 0
  /\ pc' = "exited"
  /\ UNCHANGED <<argv, stderr, request_vars, pipeline_vars>>

\* grammar_corrector.py: if len(sys.argv) != 3
Usage ==
  /\ pc = "main" /\ argv[1] = grammar_corrector
  /\ Len(argv) # 3
  /\ stdout' = Append(stdout, usage)
  /\ Exit1
  /\ UNCHANGED <<argv, stderr, request_vars, pipeline_vars>>

\* grammar_corrector.py: GrammarCorrector() loads a model or not, and
\* correct_grammar(text, level) is called
CallCorrectGrammar ==
  /\ pc = "main" /\ argv[1] = grammar_corrector
  /\ Len(argv) = 3
  /\ text' = argv[2]
  /\ style' = argv[3]
  /\ model' \in BOOLEAN
  /\ confidence' = 80
  /\ pc' = "correct_grammar"
  /\ UNCHANGED <<process_vars, num_alternatives, returned, fallback_vars, prompt,
                 transformers_vars, ai_vars, rule_vars, corrected_text, corrections, result,
                 session_vars>>

\* grammar_corrector.py: print(json.dumps(result))
PrintResult ==
  /\ pc = "corrected" /\ argv[1] = grammar_corrector
  /\ stdout' = Append(stdout, json_dumps(result))
  /\ exit_status' = 0
  /\ pc' = "exited"
  /\ UNCHANGED <<argv, stderr, request_vars, pipeline_vars>>

NextMain ==
  \/ NoInputText
  \/ ParseArguments
  \/ MainExcept
  \/ PrintResults
  \/ Usage
  \/ CallCorrectGrammar
  \/ PrintResult
  \/ Next
  \/ NextGrammar

SpecMain == InitMain /\ [][NextMain]_vars

(***************************************************************************)
(* The engines over a sequence of requests: a SimpleParaphraser and a      *)
(* ParaphraseModel are constructed once and then given one request after   *)
(* another.  What a request leaves in the variables stays there.           *)
(***************************************************************************)
\* The largest number of requests in a sequence
MaxRequests == 3

SessionTexts ==
  {"The quick brown fox jumps over the lazy dog.", "I can't go. it was nice today", "hello"}
SessionStyles == {"formal", "creative"}
SessionCounts == {1, 3}

InitSession ==
  /\ synonyms = SimpleParaphraser_synonyms
  /\ restructure_patterns = SimpleParaphraser_restructure_patterns
  /\ served = 0
  /\ pc = "idle"
  /\ text = "" /\ style = "" /\ num_alternatives = 0
  /\ returned = <<>>
  /\ NoFallback
  /\ NoTransformers
  /\ NoGrammar
  /\ NoProcess

Idle == pc \in {"idle", "simple_done", "done"}
Self == [synonyms |-> synonyms, restructure_patterns |-> restructure_patterns]

\* SimpleParaphraser.paraphrase(text, style, num_alternatives)
SimpleParaphrase ==
  /\ Idle
  /\ served < MaxRequests
  /\ \E t \in SessionTexts, s \in SessionStyles, k \in SessionCounts :
       /\ text' = t /\ style' = s /\ num_alternatives' = k
       /\ \E out \in {SimpleParaphraser_paraphrase(Self, t, s, k)} :
            /\ synonyms' = out.self.synonyms
            /\ restructure_patterns' = out.self.restructure_patterns
            /\ returned' = out.results
  /\ served' = served + 1
  /\ pc' = "simple_done"
  /\ UNCHANGED <<fallback_vars, prompt, transformers_vars, ai_vars, rule_vars, grammar_vars,
                 process_vars>>

\* ParaphraseModel.paraphrase(text, style, num_alternatives) is called
CallParaphrase ==
  /\ Idle
  /\ served < MaxRequests
  /\ text' \in SessionTexts
  /\ style' \in SessionStyles
  /\ num_alternatives' \in SessionCounts
  /\ served' = served + 1
  /\ pc' = "paraphrase"
  /\ UNCHANGED <<returned, fallback_vars, prompt, transformers_vars, ai_vars, rule_vars,
                 grammar_vars, process_vars, synonyms, restructure_patterns>>

NextSession ==
  \/ SimpleParaphrase
  \/ CallParaphrase
  \/ Next

SpecSession == InitSession /\ [][NextSession]_vars

(***************************************************************************)
(* SimpleParaphraser._fix_capitalization applied to a text, and again to   *)
(* what it gave                                                            *)
(***************************************************************************)
FixTokens == {"a", "B", "z", ".", " ", ". "}
FixTexts ==
  {""} \cup FixTokens
  \cup {a \o b : a, b \in FixTokens}
  \cup {a \o b \o c : a, b, c \in FixTokens}
  \cup {a \o b \o c \o d : a, b, c, d \in FixTokens}

InitFix ==
  /\ text \in FixTexts
  /\ pc = "_fix_capitalization"
  /\ style = "" /\ num_alternatives = 0
  /\ returned = <<>>
  /\ NoFallback
  /\ NoTransformers
  /\ NoGrammar
  /\ NoProcess
  /\ NoSession

\* _fix_capitalization(text)
FixCapitalization ==
  /\ pc = "_fix_capitalization"
  /\ returned' = <<_fix_capitalization(text)>>
  /\ pc' = "fixed"
  /\ UNCHANGED <<request_vars, fallback_vars, others>>

\* _fix_capitalization of what the first call returned
FixCapitalizationAgain ==
  /\ pc = "fixed"
  /\ returned' = Append(returned, _fix_capitalization(returned[1]))
  /\ pc' = "fixed_twice"
  /\ UNCHANGED <<request_vars, fallback_vars, others>>

NextFix == FixCapitalization \/ FixCapitalizationAgain
SpecFix == InitFix /\ [][NextFix]_vars

(***************************************************************************)
(* GrammarCorrector._score_correction applied to a source text and a       *)
(* candidate                                                               *)
(***************************************************************************)
ScoreOriginals ==
  {"", "hello", "you're face", "youre face", "teh cat", "we was there", "a b c d e"}
ScoreCandidates ==
  {s \o m \o e : s \in {"", "The ", "and "},
                 m \in {"", "hello", "you're face", "You're  turn", "your face",
                        "the cat", "we were their"},
                 e \in {"", ".", "?", " "}}

InitScore ==
  /\ text \in ScoreOriginals
  /\ corrected \in ScoreCandidates
  /\ pc = "_score_correction"
  /\ style = "" /\ num_alternatives = 0
  /\ returned = <<>>
  /\ NoFallback
  /\ NoTransformers
  /\ model = FALSE /\ best_result = "" /\ best_score = 0 /\ options = {}
  /\ rule_corrections = <<>> /\ caller = ""
  /\ corrected_text = "" /\ corrections = <<>> /\ confidence = 0 /\ result = <<>>
  /\ NoProcess
  /\ NoSession

\* _score_correction(original, corrected)
ScoreCorrection ==
  /\ pc = "_score_correction"
  /\ returned' = <<_score_correction(text, corrected)>>
  /\ pc' = "scored"
  /\ UNCHANGED <<request_vars, fallback_vars, others>>

NextScore == ScoreCorrection
SpecScore == InitScore /\ [][NextScore]_vars

(***************************************************************************)
(* The lexical generators: SimpleParaphraser.paraphrase with the calls of  *)
(* _apply_synonyms it makes, and                                           *)
(* ParaphraseModel._apply_semantic_substitutions                           *)
(***************************************************************************)
MaxVariants == 5

LexicalTokens ==
  {"quick", "Good,", "\"good\"", "(go)", "never.", "Have", "do", "hello", "Think"}
LexicalTexts ==
  LexicalTokens \cup {a \o " " \o b : a, b \in LexicalTokens}
LexicalStyles == {"formal", "creative", "simple", "casual"}

InitLexical ==
  /\ text \in LexicalTexts
  /\ style \in LexicalStyles
  /\ num_alternatives \in 1..MaxVariants
  /\ pc = "lexical"
  /\ returned = <<>>
  /\ NoFallback
  /\ NoTransformers
  /\ NoGrammar
  /\ NoProcess
  /\ synonyms = SimpleParaphraser_synonyms
  /\ restructure_patterns = SimpleParaphraser_restructure_patterns
  /\ served = 0

\* paraphrase: what _apply_synonyms returns in each call of _paraphrase_text,
\* the one for variation i at index i + 1
ApplySynonyms ==
  /\ pc = "lexical"
  /\ returned' = [i \in 1..num_alternatives |->
                    _apply_synonyms(Self, lower(text), style, i - 1).text]
  /\ pc' = "_apply_synonyms"
  /\ UNCHANGED <<request_vars, fallback_vars, others>>

\* SimpleParaphraser.paraphrase(text, style, num_alternatives)
SimpleParaphraseText ==
  /\ pc = "lexical"
  /\ \E out \in {SimpleParaphraser_paraphrase(Self, text, style, num_alternatives)} :
       /\ synonyms' = out.self.synonyms
       /\ restructure_patterns' = out.self.restructure_patterns
       /\ returned' = out.results
  /\ pc' = "simple_done"
  /\ UNCHANGED <<request_vars, fallback_vars, prompt, transformers_vars, ai_vars, rule_vars,
                 grammar_vars, process_vars, served>>

\* ParaphraseModel._apply_semantic_substitutions(text, style)
ApplySemanticSubstitutions ==
  /\ pc = "lexical"
  /\ returned' = _apply_semantic_substitutions(text, style)
  /\ pc' = "_apply_semantic_substitutions"
  /\ UNCHANGED <<request_vars, fallback_vars, others>>

NextLexical == ApplySynonyms \/ SimpleParaphraseText \/ ApplySemanticSubstitutions
SpecLexical == InitLexical /\ [][NextLexical]_vars

(***************************************************************************)
(* ParaphraseModel._apply_syntactic_transformations, transform by          *)
(* transform: results is its local list                                    *)
(***************************************************************************)
SyntacticTexts == Texts \cup {"We always eat and never sleep often."}
SyntacticStyles == {"formal", "default"}

InitSyntactic ==
  /\ text \in SyntacticTexts
  /\ style \in SyntacticStyles
  /\ num_alternatives = 0
  /\ pc = "when_i_was"
  /\ results = <<>> /\ unique_results = <<>> /\ guaranteed_results = <<>>
  /\ returned = <<>>
  /\ NoTransformers
  /\ NoGrammar
  /\ NoProcess
  /\ NoSession

\* One transform: results.extend(candidates), or results.append of the one
Transform(from, candidates, next) ==
  /\ pc = from
  /\ results' = results \o candidates
  /\ pc' = next
  /\ UNCHANGED <<request_vars, unique_results, guaranteed_results, returned, others>>

\* Transform 1, _transform_temporal_expressions: "When I was X, I Y"
WhenIWas == Transform("when_i_was", _transform_when_i_was(text), "used_to")
\* "used to" constructions
UsedTo == Transform("used_to", _transform_used_to(text), "frequency")
\* "every day" and frequency expressions
Frequency ==
  Transform("frequency", _transform_frequency(text, frequency_replacements), "combine")
\* Transform 2: sentence combining, or else splitting
CombineOrSplit ==
  Transform("combine",
            IF contains(text, ". ")
            THEN IF Len(split_sep(text, ". ", -1)) > 1
                 THEN Usable(_recombine_sentences(split_sep(text, ". ", -1)), text)
                 ELSE <<>>
            ELSE IF contains(text, " and ") \/ contains(text, " but ") \/ contains(text, " or ")
                 THEN Usable(_split_coordinated_clauses(text), text)
                 ELSE <<>>,
            "reorder")
\* A reordering of what the transforms before it gave last, not of the text
ReorderClauses_of_last ==
  Transform("reorder",
            IF results = <<>> THEN <<>>
            ELSE Usable(_reorder_clauses(results[Len(results)]), text),
            "connectors")
\* Transform 3: clause ordering
ReorderClauses == Transform("reorder", Usable(_reorder_clauses(text), text), "connectors")
\* Transform 4: sentence starters and connectors
SentenceConnectors ==
  Transform("connectors", _add_sentence_connectors(text, style), "sentence_types")
\* Transform 5: sentence types
SentenceTypes == Transform("sentence_types", _change_sentence_types(text), "expand")
\* Transform 6: expand and contract phrases
ExpandContract == Transform("expand", _expand_contract_phrases(text, style), "return")
\* return results
ReturnSyntactic ==
  /\ pc = "return"
  /\ returned' = results
  /\ pc' = "syntactic_done"
  /\ UNCHANGED <<request_vars, fallback_vars, others>>

NextSyntactic ==
  \/ WhenIWas
  \/ UsedTo
  \/ Frequency
  \/ CombineOrSplit
  \/ ReorderClauses
  \/ SentenceConnectors
  \/ SentenceTypes
  \/ ExpandContract
  \/ ReturnSyntactic

SpecSyntactic == InitSyntactic /\ [][NextSyntactic]_vars

(***************************************************************************)
(* ParaphraseModel._fallback_paraphrase with its three generators as       *)
(* independent processes: each call reads (text, style) and returns a     *)
(* local list, and results.extend is the one step that touches the pool,   *)
(* so a generator is one step here and the steps are taken in any order.   *)
(* pc maps each process to its position.                                   *)
(***************************************************************************)
Generators == {"syntactic", "semantic", "discourse"}

InitPool ==
  /\ text \in Texts
  /\ style \in Styles
  /\ num_alternatives = 0
  /\ pc = [p \in Generators \cup {"main"} |-> IF p = "main" THEN "join" ELSE "call"]
  /\ NoFallback
  /\ returned = <<>>
  /\ NoTransformers
  /\ NoGrammar
  /\ NoProcess
  /\ NoSession

\* One generator: results.extend(variants)
Extend(g, variants) ==
  /\ pc[g] = "call"
  /\ results' = results \o variants
  /\ pc' = [pc EXCEPT ![g] = "done"]
  /\ UNCHANGED <<request_vars, unique_results, guaranteed_results, returned, others>>

\* Method 1
PoolSyntactic == Extend("syntactic", _apply_syntactic_transformations(text, style))
\* The substitutions are made in what the pool holds last, not in the text
PoolSemantic_of_pool ==
  Extend("semantic",
         _apply_semantic_substitutions(IF results = <<>> THEN text ELSE results[Len(results)],
                                       style))
\* Method 2
PoolSemantic == Extend("semantic", _apply_semantic_substitutions(text, style))
\* Method 3
PoolDiscourse == Extend("discourse", _apply_discourse_restructuring(text, style))

\* "Remove duplicates and original text", once the three lists are in the pool
PoolRemoveDuplicates ==
  /\ pc["main"] = "join"
  /\ \A g \in Generators : pc[g] = "done"
  /\ unique_results' = _remove_duplicates(results, text, <<>>)
  /\ pc' = [pc EXCEPT !["main"] = "ensure"]
  /\ UNCHANGED <<request_vars, results, guaranteed_results, returned, others>>

NextPool == PoolSyntactic \/ PoolSemantic \/ PoolDiscourse \/ PoolRemoveDuplicates
SpecPool == InitPool /\ [][NextPool]_vars

(***************************************************************************)
(* Properties of one request                                               *)
(***************************************************************************)
Done == pc = "done"
Indices(list) == 1..Len(list)

\* The deduplicated pool of the rule-based generators, before the fallback
RulePool == _remove_duplicates(results, text, <<>>)
\* A candidate the caller got from the guaranteed fallback
FallbackDerived(c) == InList(c, guaranteed_results) /\ ~InList(c, RulePool)

\* C1: for a non-empty text and a requested count k >= 1, the returned list
\* holds at least 1 and at most k candidates.
C1_LengthBetween1AndK ==
  (Done /\ text # "" /\ num_alternatives >= 1)
    => (Len(returned) >= 1 /\ Len(returned) <= num_alternatives)

\* The pool was larger than the request and the list was cut to it
C1_Witness ==
  /\ Done
  /\ num_alternatives >= 2
  /\ Len(unique_results) > num_alternatives
  /\ Len(returned) = num_alternatives

\* Case-folded, whitespace-collapsed text
Normalized(s) == join(" ", split(lower(s)))

\* C2: the returned candidates are pairwise distinct after case-folding and
\* whitespace-collapsing and none equals the normalized source, unless the
\* list is the singleton of the source itself.
C2_NormalizedDistinct ==
  Done =>
    \/ returned = <<text>>
    \/ /\ \A i, j \in Indices(returned) :
            i # j => Normalized(returned[i]) # Normalized(returned[j])
       /\ \A i \in Indices(returned) : Normalized(returned[i]) # Normalized(text)

\* The deficits the fallback generator can be asked for
Deficits == 1..(MaxK + 2)

\* C3: when fewer than k candidates are returned, every candidate the
\* guaranteed fallback can make for this text and style, whatever deficit it
\* is asked for, is the source or is in the returned list.
C3_ShortOnlyWhenFallbackExhausted ==
  (Done /\ num_alternatives >= 1 /\ Len(returned) < num_alternatives) =>
    \A needed \in Deficits :
      LET all == _ensure_minimum_transformations(text, style, needed) IN
      \A i \in Indices(all) : all[i] = text \/ InList(all[i], returned)

\* A short list after the fallback generator ran
C3_Witness ==
  /\ Done
  /\ Len(returned) < num_alternatives
  /\ guaranteed_results # <<>>
  /\ \E i \in Indices(returned) : FallbackDerived(returned[i])

\* One token that is no key of the lexical catalog
SingleTokenNoCatalog(s) ==
  /\ Len(split(s)) = 1
  /\ strip_chars(lower(split(s)[1]), CharsOf(".,!?;:\"()[]{}")) \notin DOMAIN universal_replacements

MapContractions == {contractions[i][1] : i \in Indices(contractions)}
MapExpansions == {style_grammar_casual[i][1] : i \in Indices(style_grammar_casual)}

\* C5: no candidate returned for style formal holds a contraction of the
\* contraction map, and no candidate returned for style casual holds an
\* expanded form that the map contracts.
C5_StyleInvariant ==
  Done =>
    /\ style = "formal" =>
         \A i \in Indices(returned) : \A c \in MapContractions : ~contains(returned[i], c)
    /\ style = "casual" =>
         \A i \in Indices(returned) : \A e \in MapExpansions : ~contains(returned[i], e)

\* The requests that went to the model-backed paths, once answered
TransformersDone == pc = "done" /\ model_name # ""
GrammarDone == pc = "corrected"
\* _ai_correct found no candidate that differs from the text
NoBestResult == ~(best_result # "" /\ strip(best_result) # strip(text))
\* What correct_grammar returns when no model is loaded
_rule_based_result(t) ==
  LET r == _rule_based_correct(t) IN
  [correctedText |-> r[1], corrections |-> r[2], confidence |-> 70]

RecognizedStyles == {"formal", "casual", "creative"}

\* C7: a style outside formal, casual and creative gives exactly the list
\* that style "default" gives for the same text and count.
C7_UnknownStyleIsDefault ==
  (Done /\ style \notin RecognizedStyles) =>
    returned = paraphrase(text, "default", num_alternatives)

\* An unrecognized style whose list holds rule-based and fallback candidates
C7_Witness ==
  /\ Done
  /\ style = "xyz"
  /\ \E i \in Indices(returned) : FallbackDerived(returned[i])
  /\ \E i \in Indices(returned) : InList(returned[i], RulePool)

\* The type of the entries each block of _rule_based_correct appends
families ==
  <<"Capitalization", "Sentence Capitalization", "Word Choice", "Contraction",
    "Subject-Verb Agreement", "Verb Tense", "Double Negative", "Punctuation",
    "Sentence Ending">>
\* _rule_based_correct has run to its return statement
RuleBasedDone == pc = "rule_return"
\* The entries of a family in the corrections of the rule-based run
Count(family) ==
  Cardinality({i \in Indices(rule_corrections) : rule_corrections[i].type = family})

\* C8: the rule-based correction of a text with the misspelling "teh" gives a
\* text where "the" stands for "teh", and an entry whose type is a word-choice
\* or spelling fix.
C8_TehBecomesThe ==
  (RuleBasedDone /\ re_search(Word("teh"), text)) =>
    /\ ~re_search(Word("teh"), corrected)
    /\ re_search(Word("the"), corrected)
    /\ \E i \in Indices(rule_corrections) :
         rule_corrections[i].type \in {"Word Choice", "Spelling"}

\* The pairs <<corrected, corrections>> of a rule-based run: the one it starts
\* with, then the one each block leaves
RECURSIVE rule_based_trace(_, _)
rule_based_trace(r, n) ==
  IF n > Len(rule_blocks) THEN <<r>>
  ELSE <<r>> \o rule_based_trace(apply_block(rule_blocks[n], r), n + 1)
\* Block n changed the text
Changed(trace, n) == trace[n + 1][1] # trace[n][1]

ContractionKeys(s) ==
  {i \in Indices(contraction_fixes) : re_search(Word(contraction_fixes[i][1]), s)}
\* The words of s whose capitalization the first block fixes
WeirdWords(s) == {i \in Indices(split(s)) : HasWeirdCapitalization(split(s)[i])}

OutputLines ==
  [i \in Indices(returned) |->
     LET a == IF i = 1 THEN lstrip_chars(returned[i], {" "}) ELSE returned[i]
     IN IF i = Len(returned) THEN rstrip_chars(a, {" "}) ELSE a]
RECURSIVE _paraphrase_lines(_, _)
_paraphrase_lines(lines, original) ==
  IF lines = <<>> THEN <<>>
  ELSE (IF ~startswith(lines[1], "INFO:") /\ strip(lines[1]) # "" /\ lines[1] # original
        THEN <<strip(lines[1])>> ELSE <<>>)
       \o _paraphrase_lines(Tail(lines), original)

\* test_paraphrase_quality
test_paraphrase_quality(original, paraphrases) ==
  /\ paraphrases # <<>>
  /\ \E i \in Indices(paraphrases) : strip(paraphrases[i]) # strip(original)
  /\ Cardinality({strip(paraphrases[i]) : i \in Indices(paraphrases)}) >= 2
  /\ \A i \in Indices(paraphrases) :
       ~(Len(split(paraphrases[i])) * 2 < Len(split(original)))

\* C10: with k = 3 the output passes the tests' quality predicate: at least two
\* mutually distinct paraphrases that differ from the original, none with
\* fewer words than half the original's.
C10_QualityPredicate ==
  (Done /\ num_alternatives = 3) =>
    LET paraphrases == _paraphrase_lines(OutputLines, text) IN
    /\ test_paraphrase_quality(text, paraphrases)
    /\ Cardinality({strip(paraphrases[i]) : i \in Indices(paraphrases)}
                   \ {strip(text)}) >= 2

\* Three candidates, one of them shorter in words than the original
C10_Witness ==
  /\ Done
  /\ num_alternatives = 3
  /\ Len(returned) = 3
  /\ \E i \in Indices(returned) : Len(split(returned[i])) < Len(split(text))

(***************************************************************************)
(* Properties of the command-line programs                                 *)
(***************************************************************************)
Exited == pc = "exited"
\* What the process printed as results: its standard output but the usage line
Emitted == SelectSeq(stdout, LAMBDA line : line # usage)
ErrorReported == stderr # <<>> \/ \E i \in 1..Len(stdout) : stdout[i] = usage
Failed == exit_status # 0 /\ ErrorReported /\ Emitted = <<>>
TextMissing == Len(argv) < 2

\* C11: the process fails (error reported, non-zero exit, no result) only
\* when the text argument is missing; every invocation that supplies a
\* non-empty text emits at least one result and exits with status 0
C11_FailsOnlyWhenTextMissing ==
  Exited =>
    /\ exit_status # 0 => TextMissing
    /\ TextMissing => Failed
    /\ ~TextMissing /\ argv[2] # "" => exit_status = 0 /\ Emitted # <<>>

\* The invocations main accepts: a text and, for the paraphraser, a count
\* that is an integer literal if given; exactly a text and a level for the
\* corrector
WellFormed ==
  IF argv[1] = paraphrase_model
  THEN Len(argv) >= 2 /\ (Len(argv) > 3 => is_int_literal(argv[4]))
  ELSE Len(argv) = 3
\* The paraphraser is asked for at least one alternative
CountPositive == Len(argv) > 3 => int(argv[4]) >= 1

\* C11 (amended): the process fails (error reported, non-zero exit, no
\* result) exactly when the invocation is malformed: the text is missing,
\* the paraphraser's count is not an integer, or the corrector is not given
\* exactly a text and a level.  Every well-formed invocation exits with
\* status 0, and one with a non-empty text emits at least one result when
\* it is the corrector's or asks the paraphraser for a count >= 1.
C11_FailsOnlyWhenMalformed ==
  Exited =>
    /\ exit_status # 0 <=> ~WellFormed
    /\ ~WellFormed => Failed
    /\ WellFormed /\ argv[2] # "" /\ (argv[1] = paraphrase_model => CountPositive)
         => exit_status = 0 /\ Emitted # <<>>

\* Both programs have exited 0 with a result for a non-empty text, here the
\* paraphraser with its default count
C11_Witness ==
  /\ Exited /\ exit_status = 0
  /\ argv = <<paraphrase_model, "Hello there.">>
  /\ Len(Emitted) = 2
(***************************************************************************)
(* Properties of the candidates                                            *)
(***************************************************************************)
StartsCapital(s) == s # "" /\ IsUpperChar(CharAt(s, 1))
\* A request for one formal alternative of a sentence: capital first, "." last
FormalSentenceRequest ==
  style = "formal" /\ num_alternatives = 1 /\ StartsCapital(text) /\ endswith(text, ".")

\* C12: for an input that starts with a capital letter and ends in ".", with
\* style "formal" and k = 1, the single candidate returned differs from the
\* input, ends in "." and starts with a capital letter
C12_FormalCandidateWellFormed ==
  Done /\ FormalSentenceRequest =>
    /\ Len(returned) = 1
    /\ returned[1] # text
    /\ endswith(returned[1], ".")
    /\ StartsCapital(returned[1])
(***************************************************************************)
(* Properties of the engines over a sequence of requests                   *)
(***************************************************************************)
\* C13: a request leaves every catalog table unchanged, and after any
\* sequence of earlier requests the result for (text, style, k) is the
\* result of a freshly initialized engine
C13_CatalogsUnchangedResultAsFresh ==
  /\ synonyms = SimpleParaphraser_synonyms
  /\ restructure_patterns = SimpleParaphraser_restructure_patterns
  /\ pc = "simple_done" =>
       returned = SimpleParaphraser_paraphrase(SimpleParaphraser_init, text, style,
                                               num_alternatives).results
  /\ pc = "done" => returned = _fallback_paraphrase(text, style, num_alternatives)

\* The SimpleParaphraser has answered with three candidates after the
\* ParaphraseModel has answered an earlier request
C13_Witness ==
  /\ served >= 2
  /\ pc = "simple_done"
  /\ Len(returned) = 3
  /\ unique_results # <<>>
\* C14: the sentence-initial capitalization fix is idempotent: applied
\* twice it gives the same string as applied once
C14_FixCapitalizationIdempotent ==
  pc = "fixed_twice" => returned[2] = returned[1]

\* The fix has changed the first letter and a letter after a period, and
\* has been applied again
C14_Witness ==
  pc = "fixed_twice" /\ text = "a. z" /\ returned = <<"A. Z", "A. Z">>
(***************************************************************************)
(* Properties of the guaranteed fallback                                   *)
(***************************************************************************)
\* _ensure_minimum_transformations has been called: the deduplicated pool
\* of the rule-based generators was short of the request
FallbackInvoked == pc \in {"return", "done"} /\ Len(RulePool) < num_alternatives

\* C15: invoked with a deficit >= 1 on a non-empty input, for any style, the
\* guaranteed fallback returns at least one candidate, and what it returns
\* differs from the source and from every candidate of the deduplicated pool
C15_FallbackCandidatesNew ==
  FallbackInvoked /\ text # "" =>
    /\ guaranteed_results # <<>>
    /\ \A i \in Indices(guaranteed_results) :
         guaranteed_results[i] # text /\ ~InList(guaranteed_results[i], RulePool)

\* The fallback was asked for two candidates on top of a pool that is not empty
C15_Witness ==
  /\ FallbackInvoked
  /\ text # ""
  /\ RulePool # <<>>
  /\ Len(guaranteed_results) = 2
(***************************************************************************)
(* _ensure_minimum_transformations, strategy by strategy: the call of      *)
(* _fallback_paraphrase for a request whose count exceeds the pool by a    *)
(* deficit.  guaranteed_results is the list of the generator (its local    *)
(* results).                                                               *)
(***************************************************************************)
InitEnsure ==
  /\ text \in Texts
  /\ style \in Styles
  /\ results = _generate_results(text, style)
  /\ unique_results = _remove_duplicates(results, text, <<>>)
  /\ \E deficit \in Deficits : num_alternatives = Len(unique_results) + deficit
  /\ guaranteed_results = <<>>
  /\ pc = "strategy1"
  /\ returned = <<>>
  /\ NoTransformers
  /\ NoGrammar
  /\ NoProcess
  /\ NoSession

\* num_alternatives - len(unique_results)
needed == num_alternatives - Len(unique_results)

ensure_unchanged ==
  <<text, style, num_alternatives, results, unique_results, returned, others>>

\* "Strategy 1: Add qualifying words"
Strategy1 ==
  /\ pc = "strategy1"
  /\ guaranteed_results' = _strategy1(text, style, needed)
  /\ pc' = "strategy2"
  /\ UNCHANGED ensure_unchanged

\* "Strategy 2: Change sentence structure with "it is" constructions"
Strategy2 ==
  /\ pc = "strategy2"
  /\ guaranteed_results' = _strategy2(guaranteed_results, text, style, needed)
  /\ pc' = "strategy3"
  /\ UNCHANGED ensure_unchanged

\* "Strategy 3: Add emphasis or hedging"
Strategy3 ==
  /\ pc = "strategy3"
  /\ guaranteed_results' = _strategy3(guaranteed_results, text, style, needed)
  /\ pc' = "strategy4"
  /\ UNCHANGED ensure_unchanged

\* "Strategy 4: Rephrase with different verb tenses or aspects"
Strategy4 ==
  /\ pc = "strategy4"
  /\ guaranteed_results' = _strategy4(guaranteed_results, text, needed)
  /\ pc' = "cut"
  /\ UNCHANGED ensure_unchanged

\* return results[:needed]
ReturnNeeded ==
  /\ pc = "cut"
  /\ guaranteed_results' = Take(guaranteed_results, needed)
  /\ pc' = "ensured"
  /\ UNCHANGED ensure_unchanged

NextEnsure == Strategy1 \/ Strategy2 \/ Strategy3 \/ Strategy4 \/ ReturnNeeded
SpecEnsure == InitEnsure /\ [][NextEnsure]_vars

\* The kinds of candidate
Perhaps(c) == c = "Perhaps " \o lower(text)
Generally(c) == c = "Generally speaking, " \o lower(text)
Actually(c) == c = "Actually, " \o lower(text)
ItIsFrame(c) ==
  c \in {"It is noteworthy that " \o lower(text), "It is important to note that " \o lower(text)}
ItShouldBeNoted(c) == c = "It should be noted that " \o lower(text)
Hedge(c) == Perhaps(c) \/ Generally(c) \/ Actually(c)
MetaFrame(c) == ItIsFrame(c) \/ ItShouldBeNoted(c)

\* The place of a candidate in the order hedge or emphasis prefix,
\* meta-frame wrapper, tense or aspect perturbation
PriorityOf(c) == IF Hedge(c) THEN 1 ELSE IF MetaFrame(c) THEN 2 ELSE 3
\* Its place in the order of the four strategies
StrategyOf(c) ==
  IF Perhaps(c) \/ Generally(c) THEN 1
  ELSE IF ItIsFrame(c) THEN 2
  ELSE IF Actually(c) \/ ItShouldBeNoted(c) THEN 3
  ELSE 4

\* Once the deficit is filled the list does not change
StopsWhenFilled == Len(guaranteed_results) >= needed => guaranteed_results' = guaranteed_results

\* C16: the guaranteed fallback emits its candidates in the priority order
\* (1) style-appropriate hedge or emphasis prefix ("Perhaps " for formal,
\* "Actually, " for casual), (2) meta-frame wrapper, (3) tense or aspect
\* perturbation, stopping as soon as the deficit is filled; a meta-frame
\* candidate is produced only when the style is formal
C16_PriorityOrderMetaFrameFormalOnly ==
  /\ [](/\ Len(guaranteed_results) <= needed
        /\ \A i, j \in Indices(guaranteed_results) :
             i < j => PriorityOf(guaranteed_results[i]) <= PriorityOf(guaranteed_results[j])
        /\ \A i \in Indices(guaranteed_results) :
             /\ Perhaps(guaranteed_results[i]) => style = "formal"
             /\ Actually(guaranteed_results[i]) => style = "casual"
             /\ MetaFrame(guaranteed_results[i]) => style = "formal")
  /\ [][StopsWhenFilled]_vars

\* C16 (amended): the guaranteed fallback emits its candidates in the order
\* of its four strategies: (1) the hedge prefixes "Perhaps " (formal only)
\* and "Generally speaking, " (any style), (2) the meta-frame "It is
\* noteworthy that " or "It is important to note that " (formal only, for a
\* text that ends in "."), (3) "Actually, " for casual and the meta-frame
\* "It should be noted that " for every other style, (4) the tense or
\* aspect perturbation, stopping as soon as the deficit is filled
C16_StrategyOrder ==
  /\ [](/\ Len(guaranteed_results) <= needed
        /\ \A i, j \in Indices(guaranteed_results) :
             i < j => StrategyOf(guaranteed_results[i]) <= StrategyOf(guaranteed_results[j])
        /\ \A i \in Indices(guaranteed_results) :
             /\ Perhaps(guaranteed_results[i]) => style = "formal" /\ i = 1
             /\ Actually(guaranteed_results[i]) => style = "casual"
             /\ ItIsFrame(guaranteed_results[i]) => style = "formal" /\ endswith(text, ".")
             /\ ItShouldBeNoted(guaranteed_results[i]) => style # "casual")
  /\ [][StopsWhenFilled]_vars

\* A formal request whose deficit of five is filled by all four strategies
C16_Witness ==
  /\ pc = "ensured"
  /\ style = "formal"
  /\ Len(guaranteed_results) = 5
  /\ Perhaps(guaranteed_results[1])
  /\ ItIsFrame(guaranteed_results[3])
  /\ ItShouldBeNoted(guaranteed_results[4])
  /\ StrategyOf(guaranteed_results[5]) = 4
(***************************************************************************)
(* Properties of the final list                                            *)
(***************************************************************************)
\* Where a candidate was generated first: its least index in the pool
GeneratedAt(c) == MinOf({i \in Indices(results) : results[i] = c})
RuleBased(c) == InList(c, RulePool)

\* C17: in the final list the rule-based candidates appear in the order in
\* which they were generated, every fallback-derived candidate appears
\* after every rule-based one, and the cut to k drops a rule-based
\* candidate only if it leaves no fallback-derived one
C17_RuleBasedFirstInOrder ==
  Done =>
    /\ \A i, j \in Indices(returned) :
         i < j /\ RuleBased(returned[i]) /\ RuleBased(returned[j])
           => GeneratedAt(returned[i]) < GeneratedAt(returned[j])
    /\ \A i, j \in Indices(returned) :
         RuleBased(returned[i]) /\ FallbackDerived(returned[j]) => i < j
    /\ (\E i \in Indices(RulePool) : ~InList(RulePool[i], returned))
         => \A j \in Indices(returned) : ~FallbackDerived(returned[j])

\* Two rule-based candidates and then one from the fallback
C17_Witness ==
  /\ Done
  /\ Len(returned) = 3
  /\ RuleBased(returned[1]) /\ RuleBased(returned[2])
  /\ FallbackDerived(returned[3])

(***************************************************************************)
(* Properties of the calls of the external generator                       *)
(***************************************************************************)
\* The calls of the generator made so far in the request: one per prompt
\* the loop has been through
Invocations ==
  IF pc \in {"_ai_correct", "_paraphrase_with_transformers"} THEN prompt - 1 ELSE prompt
\* The prompts of the path the request takes
PromptCount == IF model_name # "" THEN prompts_for(model_name) ELSE Len(prompts)

\* C18: within one request the external generator is invoked at most once
C18_GeneratorInvokedAtMostOnce == Invocations <= 1

\* C18, amended: within one request the generator is invoked at most once
\* per prompt of the path, it is not invoked again once a candidate of
\* the grammar corrector scores above 0.7 or a call of the paraphraser
\* has raised, and no call follows the loop over the prompts
C18_GeneratorInvokedOncePerPrompt ==
  /\ [](/\ Invocations <= PromptCount
        /\ pc = "_ai_correct" => best_score <= 70
        /\ pc = "_paraphrase_with_transformers" => exception = "")
  /\ [][pc \notin {"_ai_correct", "_paraphrase_with_transformers", "correct_grammar"}
          => prompt' = prompt]_vars

\* The second prompt of the grammar corrector gave a candidate above 0.7
\* after the first gave none above it, and the loop has ended
C18_Witness ==
  /\ pc = "use_best"
  /\ Invocations = 2
  /\ best_score > 70

(***************************************************************************)
(* Properties of the score of a correction                                 *)
(***************************************************************************)
Scored == pc = "scored"
\* The "you're" anti-pattern is in the candidate
AntiPattern(candidate) == re_search(<<Lit("you're"), WS, Alt(your_nouns)>>, candidate)

\* C19: for every source text and every candidate the score that
\* _score_correction returns, in hundredths, lies between 0 and 100
C19_ScoreInUnitInterval ==
  Scored => returned[1] >= 0 /\ returned[1] <= 100

\* A candidate with the anti-pattern and no bonus is scored 0.2, the least
\* score of a candidate of a comparable length
C19_Witness ==
  /\ Scored
  /\ AntiPattern(corrected)
  /\ ~too_different(text, corrected)
  /\ returned[1] = 20

(***************************************************************************)
(* Properties of the selection of a correction                             *)
(***************************************************************************)
\* _ai_correct: "if best_score > 0.7", in hundredths
Threshold == 70
\* The selection is an option of the greatest score among those evaluated,
\* and none while no option has been evaluated
SelectsMaximum ==
  IF options = {} THEN best_result = "" /\ best_score = 0
  ELSE /\ <<best_result, best_score>> \in options
       /\ \A option \in options : option[2] <= best_score

\* A selection that is not above the threshold is given up for no other
\* reason than a later one: every prompt has been asked
BestAvailableKept ==
  /\ (pc = "use_best" /\ best_score <= Threshold) => prompt = Len(prompts)
  /\ (pc = "_ai_correct") => best_score <= Threshold
  /\ (GrammarDone /\ model /\ ~NoBestResult) => result.correctedText = best_result

Chosen(alternatives, s, i) ==
  alternatives[(IF s = "formal" THEN 0 ELSE i % Len(alternatives)) + 1]
\* The token of SimpleParaphraser for a word, with that alternative
SynonymToken(word, s, i) ==
  IF clean_word(word) \in DOMAIN synonyms
  THEN Chosen(synonyms[clean_word(word)], s, i) \o punctuation(word)
  ELSE word
\* The token of ParaphraseModel for a word, with that alternative
ReplacementToken(word, s, i) ==
  LET clean == strip_chars(lower(word), CharsOf(".,!?;:\"()[]{}")) IN
  IF clean \in DOMAIN universal_replacements
  THEN Chosen(universal_replacements[clean], s, i) \o From(word, Len(clean))
  ELSE word
\* A word of the text is a key of the catalog of ParaphraseModel
HasReplacement(t) ==
  \E j \in Indices(split(t)) :
    strip_chars(lower(split(t)[j]), CharsOf(".,!?;:\"()[]{}")) \in DOMAIN universal_replacements

\* C21: with variation index i a token found in the catalog is replaced by
\* the alternative at index i mod len(alternatives), and by the alternative
\* at index 0 for every i when the style is formal
C21_AlternativeByVariation ==
  /\ pc = "_apply_synonyms" =>
       \A i \in Indices(returned) :
         returned[i] =
           join(" ", [j \in Indices(split(lower(text))) |->
                        SynonymToken(split(lower(text))[j], style, i - 1)])
  /\ (pc = "_apply_semantic_substitutions" /\ HasReplacement(text)) =>
       \A i \in Indices(returned) :
         returned[i] =
           _apply_style_grammar(
             join(" ", [j \in Indices(split(text)) |->
                          ReplacementToken(split(text)[j], style, i - 1)]), style)

\* The variants a lexical generator has returned
LexicalDone == pc \in {"simple_done", "_apply_semantic_substitutions"}
PairwiseDistinct(list) == \A i, j \in Indices(list) : i # j => list[i] # list[j]

\* C22: run with i = 0..k-1 the lexical generator returns at most k
\* variants, pairwise distinct, none of them identical to the source text
C22_AtMostKDistinctNotSource ==
  LexicalDone =>
    /\ Len(returned) <= num_alternatives
    /\ PairwiseDistinct(returned)
    /\ ~InList(text, returned)

\* The punctuation of a token: the characters that are no word characters
Marks(word) == {CharAt(word, i) : i \in 1..Len(word)} \ WordChars
\* The token without its leading punctuation, and the punctuation it leads with
Unled(word) == lstrip_chars(word, Marks(word))
Lead(word) == SubSeq(word, 1, Len(word) - Len(Unled(word)))
\* The token minus its punctuation, and the punctuation it trails
Core(word) == rstrip_chars(Unled(word), Marks(word))
Trail(word) == From(Unled(word), Len(Core(word)))
\* What a token may become: an alternative of its catalog entry between the
\* token's own punctuation, or the token itself when it is no key
Reattached(word, catalog) ==
  IF lower(Core(word)) \in DOMAIN catalog
  THEN {Lead(word) \o catalog[lower(Core(word))][a] \o Trail(word) :
          a \in Indices(catalog[lower(Core(word))])}
  ELSE {word}
\* The texts that the tokens may become, token by token
RECURSIVE ReattachedTexts(_, _)
ReattachedTexts(words, catalog) ==
  IF words = <<>> THEN {""}
  ELSE {first \o (IF rest = "" THEN "" ELSE " " \o rest) :
          first \in Reattached(Head(words), catalog),
          rest \in ReattachedTexts(Tail(words), catalog)}

\* C23: each token that is a catalog key once its punctuation is taken off
\* becomes an alternative with the punctuation of the token reattached where
\* it was, leading punctuation included, and every other token stays as it is
C23_PunctuationReattached ==
  /\ pc = "_apply_synonyms" =>
       \A i \in Indices(returned) :
         returned[i] \in ReattachedTexts(split(lower(text)), synonyms)
  /\ (pc = "_apply_semantic_substitutions" /\ HasReplacement(text)) =>
       \A i \in Indices(returned) :
         returned[i] \in {_apply_style_grammar(t, style) :
                            t \in ReattachedTexts(split(text), universal_replacements)}

\* C24: every lexical-substitution variant of a source that starts with a
\* capital letter starts with a capital letter
C24_VariantStartsCapital ==
  (LexicalDone /\ StartsCapital(text)) =>
    \A i \in Indices(returned) : StartsCapital(returned[i])

(***************************************************************************)
(* Properties of the syntactic generator                                   *)
(***************************************************************************)
\* The candidates that the step being taken adds to results
Added == SubSeq(results', Len(results) + 1, Len(results'))
\* The frequency expressions found in the text
FrequenciesIn(t) ==
  {i \in Indices(frequency_replacements) : contains(lower(t), frequency_replacements[i][1])}
\* The steps of the five rules: the "When I was" and frequency rewrites, the
\* "used to" rewrite, recombination or coordinator split, clause fronting
RuleSteps == {"when_i_was", "used_to", "frequency", "combine", "reorder"}
\* What the rule of a step gives for a text
RuleOf(step, t) ==
  CASE step = "when_i_was" -> _transform_when_i_was(t)
    [] step = "used_to" -> _transform_used_to(t)
    [] step = "frequency" -> _transform_frequency(t, frequency_replacements)
    [] step = "combine" ->
         IF contains(t, ". ") THEN _recombine_sentences(split_sep(t, ". ", -1))
         ELSE _split_coordinated_clauses(t)
    [] step = "reorder" -> _reorder_clauses(t)
\* The candidates a step adds are candidates its rule gives for the source
FromSource == \A i \in Indices(Added) : InList(Added[i], RuleOf(pc, text))

\* C25: in one invocation of the syntactic generator each syntactic rule
\* contributes at most one candidate, obtained by applying that rule to the
\* unmodified source text
C25_OneCandidatePerRule ==
  [][(pc \in RuleSteps) => (Len(Added) <= 1 /\ FromSource)]_vars

\* C25, amended: coordinator split, sentence recombination and clause
\* fronting contribute at most one candidate each, the "When I was" rewrite
\* and the "used to" rewrite three each when they apply, the frequency
\* rewrite at most three for each frequency expression in the text; each
\* candidate is obtained by applying its rule to the unmodified source text
C25_BoundedCandidatesPerRule ==
  [][(pc \in RuleSteps) =>
       (/\ pc \in {"combine", "reorder"} => Len(Added) <= 1
        /\ pc \in {"when_i_was", "used_to"} => Len(Added) \in {0, 3}
        /\ pc = "frequency" => Len(Added) <= 3 * Cardinality(FrequenciesIn(text))
        /\ FromSource)]_vars

\* The "When I was" and the "used to" rewrites gave three candidates each,
\* the frequency rewrite three, the split one and the fronting none
C25_Witness ==
  /\ pc = "syntactic_done"
  /\ Len(_transform_when_i_was(text)) = 3
  /\ Len(_transform_used_to(text)) = 3
  /\ Len(_transform_frequency(text, frequency_replacements)) = 3
  /\ returned = _apply_syntactic_transformations(text, style)
  /\ Len(returned) >= 9
(***************************************************************************)
(* Properties of the pool                                                  *)
(***************************************************************************)
Elements(list) == {list[i] : i \in 1..Len(list)}
Pooled == pc["main"] = "ensure"

\* C26: the lexical, syntactic and discourse generators do not depend on
\* each other's output: in whatever order they put their candidates in the
\* pool, the deduplicated pool holds the same set of candidates as in the
\* order of the code.
C26_PoolIndependentOfOrder ==
  Pooled =>
    Elements(unique_results)
      = Elements(_remove_duplicates(_generate_results(text, style), text, <<>>))
\* The three generators ran in the reverse of the code's order, each gave
\* something, and the pool lists its candidates in another order than the
\* code's
C26_Witness ==
  /\ Pooled
  /\ _apply_syntactic_transformations(text, style) # <<>>
  /\ _apply_semantic_substitutions(text, style) # <<>>
  /\ _apply_discourse_restructuring(text, style) # <<>>
  /\ results = _apply_discourse_restructuring(text, style)
                \o _apply_semantic_substitutions(text, style)
                \o _apply_syntactic_transformations(text, style)
  /\ unique_results # _remove_duplicates(_generate_results(text, style), text, <<>>)

(***************************************************************************)
(* Properties of a generator call that never returns                       *)
(***************************************************************************)
\* The request is inside a call of generate that does not return
InGenerate == pc = "generate"

\* C27: if the external generator call never returns, the engine abandons it
\* after a bounded timeout and the request still eventually reaches Done.
C27_HangingCallAbandoned == InGenerate ~> GrammarDone

(***************************************************************************)
(* Properties of the corrected text and of its audit trail                 *)
(***************************************************************************)
\* The first character of s that is not a space is a letter
LetterFirst(s) ==
  \E t \in {lstrip_chars(s, {" "})} : t # "" /\ CharAt(t, 1) \in UpperSet \cup LowerSet

\* C28: for every input whose first non-space character is a letter, the
\* correctedText that grammar correction returns starts with an upper-case
\* letter, also when a later word fix rewrites the sentence-initial word.
C28_CorrectedStartsUpper ==
  (GrammarDone /\ LetterFirst(text)) => StartsCapital(result.correctedText)

\* C29: the corrections of rule-based correction are complete: whenever the
\* returned correctedText differs from the input text in any character, the
\* corrections list is not empty.
C29_AuditTrailComplete ==
  (GrammarDone /\ ~model /\ result.correctedText # text) => result.corrections # <<>>

\* The contraction fixes that give one of the negative contractions
NegativeFixes == {i \in Indices(contraction_fixes) : InList(contraction_fixes[i][2], negative_contractions)}
\* The words the double-negative fixes replace, each with its replacement
Replaced == {<<"nowhere", "anywhere">>, <<"nothing", "anything">>, <<"nobody", "anybody">>}
\* In s the word wrong is followed later by the word w
FollowedBy(s, wrong, w) ==
  \E i \in MatchStarts(s, 0, Word(wrong)) : MatchStarts(s, i + Len(wrong), Word(w)) # {}
\* An entry of the given type and corrected form, before a Double Negative one
EntriesInOrder(list, right) ==
  \E a, b \in Indices(list) :
    /\ a < b
    /\ list[a].type = "Contraction" /\ list[a].corrected = right
    /\ list[b].type = "Double Negative"

\* C30: in rule-based correction the contraction repair runs before the
\* double-negative check: an input in which cant, dont, wont, couldnt,
\* wouldnt or shouldnt is followed later by nowhere, nothing or nobody is
\* corrected in one pass to a text with the apostrophized contraction and
\* anywhere, anything or anybody, with a Contraction entry and a Double
\* Negative entry recorded in that order.
C30_ContractionBeforeDoubleNegative ==
  GrammarDone =>
    \A f \in NegativeFixes, r \in Replaced :
      FollowedBy(text, contraction_fixes[f][1], r[1]) =>
        /\ contains(result.correctedText, contraction_fixes[f][2])
        /\ contains(result.correctedText, r[2])
        /\ EntriesInOrder(result.corrections, contraction_fixes[f][2])
\* "i WOULDNT see it  Nobody ." has been corrected
C30_Witness ==
  /\ GrammarDone
  /\ FollowedBy(text, "wouldnt", "nobody")
  /\ text # lower(text)
  /\ result.correctedText = "I wouldn't see it anybody."
  /\ EntriesInOrder(result.corrections, "wouldn't")

====
